---- MODULE Spec2Model ----
(***************************************************************************)
(* A model of the Enzonix DNS client library (package enzonix).            *)
(*                                                                         *)
(* A string is a sequence of characters, each a one-character string; an   *)
(* input may be written as a sequence of tokens (runs of characters such   *)
(* as "api" or "https"), which the operations that look at characters      *)
(* flatten.  Three specifications share the variables:                     *)
(*   SpecNew  explores NewClient over credentials and option lists;        *)
(*   Spec     starts from a constructed client and explores the resource   *)
(*            operations, one call at a time, with the transport's answer  *)
(*            chosen by the environment.                                   *)
(***************************************************************************)
EXTENDS Integers, Sequences, FiniteSets, TLC

VARIABLES
    ctor,     \* the arguments NewClient was called with: [apiKey, opts]
    client,   \* the *Client NewClient returned (NilClient when it failed)
    ctorErr,  \* the error NewClient returned (NilErr on success)
    ran,      \* the indices of the options NewClient invoked, in order
    pc,       \* "new" before NewClient, then "idle" | "sent" | "answered" | "done"
    call,     \* the resource operation in progress and its arguments
    req,      \* the requests handed to the transport by the current call
    resp,     \* what the transport answered: the status, then the body as well
    result,   \* what the operation returned to its caller
    read,     \* the bytes the operation read from the response body
    callers,  \* the calls in progress of the callers that share the client
    issued    \* the api_token of the last profile RotateAPIKey returned, if any

vars == <<ctor, client, ctorErr, ran, pc, call, req, resp, result, read, callers, issued>>

----------------------------------------------------------------------------
(* Bounds of the exploration.                                               *)

\* longest identifier / zone name / domain name, in tokens
MaxLen == 2
\* longest option list given to NewClient
MaxOpts == 2

----------------------------------------------------------------------------
(* Characters.  The alphabet is printable ASCII, the ASCII control          *)
(* characters that are white space, and the white space U+0085, U+00A0 and  *)
(* U+1680.  A byte that is no character of the alphabet is written as the   *)
(* three-character element %XX of a decoded string.                         *)

LowerLetters == "abcdefghijklmnopqrstuvwxyz"
UpperLetters == "ABCDEFGHIJKLMNOPQRSTUVWXYZ"
Digits == "0123456789"
HexDigits == "0123456789ABCDEF"
\* the character 0x60, which a string may hold only before an apostrophe
Backtick == SubSeq("`'", 1, 1)
\* the characters 0x20 to 0x7E, in order
Printable ==
    " !\"#$%&'()*+,-./0123456789:;<=>?@ABCDEFGHIJKLMNOPQRSTUVWXYZ[\\]^_"
    \o Backtick \o "abcdefghijklmnopqrstuvwxyz{|}~"
\* the characters U+000B, U+0085, U+00A0 and U+1680
VT == ""
NEL == ""
NBSP == " "
OghamSpace == " "
\* the characters 0x09 to 0x0D, in order
Controls == <<"\t", "\n", VT, "\f", "\r">>
\* the white space outside ASCII (unicode.IsSpace) that is in the alphabet, with
\* its UTF-8 bytes
WideSpaces ==
    <<[c |-> NEL, utf8 |-> <<194, 133>>],
     [c |-> NBSP, utf8 |-> <<194, 160>>],
     [c |-> OghamSpace, utf8 |-> <<225, 154, 128>>]>>

CharAt(t, i) == SubSeq(t, i, i)

\* the characters of a token
Chars(t) == [i \in 1..Len(t) |-> CharAt(t, i)]

\* strings.Contains for one character
Contains(s, c) == \E i \in 1..Len(s) : s[i] = c

\* strings.Index, from 1; 0 when c is not in s
Index(s, c) ==
    IF Contains(s, c)
    THEN CHOOSE i \in 1..Len(s) : s[i] = c /\ \A j \in 1..(i - 1) : s[j] # c
    ELSE 0

\* strings.LastIndex, from 1; 0 when c is not in s
LastIndex(s, c) ==
    IF Contains(s, c)
    THEN CHOOSE i \in 1..Len(s) : s[i] = c /\ \A j \in (i + 1)..Len(s) : s[j] # c
    ELSE 0

RECURSIVE ConcatRange(_, _, _)
\* the sequences ss[lo], ..., ss[hi] joined
ConcatRange(ss, lo, hi) ==
    IF lo > hi THEN <<>>
    ELSE IF lo = hi THEN ss[lo]
    ELSE ConcatRange(ss, lo, (lo + hi) \div 2) \o ConcatRange(ss, (lo + hi) \div 2 + 1, hi)

\* the sequences of ss joined
Concat(ss) == ConcatRange(ss, 1, Len(ss))

RECURSIVE JoinRange(_, _, _)
\* the strings ss[lo], ..., ss[hi] joined
JoinRange(ss, lo, hi) ==
    IF lo > hi THEN ""
    ELSE IF lo = hi THEN ss[lo]
    ELSE JoinRange(ss, lo, (lo + hi) \div 2) \o JoinRange(ss, (lo + hi) \div 2 + 1, hi)

LowerSet == {CharAt(LowerLetters, i) : i \in 1..Len(LowerLetters)}
UpperSet == {CharAt(UpperLetters, i) : i \in 1..Len(UpperLetters)}
DigitSet == {CharAt(Digits, i) : i \in 1..Len(Digits)}
HexSet == DigitSet \cup {CharAt("abcdefABCDEF", i) : i \in 1..12}
PrintableSet == {CharAt(Printable, i) : i \in 1..Len(Printable)}
ControlSet == {Controls[i] : i \in 1..Len(Controls)}
WideSet == {WideSpaces[k].c : k \in 1..Len(WideSpaces)}

IsLower(c) == c \in LowerSet
IsUpper(c) == c \in UpperSet
IsLetter(c) == IsLower(c) \/ IsUpper(c)
IsDigit(c) == c \in DigitSet
IsAlnum(c) == IsLetter(c) \/ IsDigit(c)
ishex(c) == c \in HexSet
\* the value of a hexadecimal digit
HexValue == [c \in HexSet |->
                IF c \in DigitSet THEN Index(Chars(Digits), c) - 1
                ELSE IF Contains(Chars("abcdef"), c) THEN 9 + Index(Chars("abcdef"), c)
                ELSE 9 + Index(Chars("ABCDEF"), c)]
unhex(c) == HexValue[c]

IsControl(c) == c \in ControlSet
IsWideSpace(c) == c \in WideSet
IsASCII(c) == c \in PrintableSet \/ IsControl(c)
\* a byte that is no character of the alphabet, written %XX
IsByteTok(c) == Len(c) = 3

\* unicode.IsSpace
IsSpace(c) == c = " " \/ IsControl(c) \/ IsWideSpace(c)

\* the characters of a string given as tokens
Flatten(s) == Concat([k \in 1..Len(s) |-> Chars(s[k])])

\* the characters or tokens of a string joined
Str(s) == JoinRange(s, 1, Len(s))

\* the byte n as %XX
Hex2(n) == "%" \o CharAt(HexDigits, (n \div 16) + 1) \o CharAt(HexDigits, (n % 16) + 1)

\* the UTF-8 bytes of the characters of the alphabet
Utf8 == [c \in PrintableSet \cup ControlSet \cup WideSet |->
            IF c \in PrintableSet THEN <<31 + Index(Chars(Printable), c)>>
            ELSE IF c \in ControlSet THEN <<8 + Index(Controls, c)>>
            ELSE WideSpaces[CHOOSE k \in 1..Len(WideSpaces) : WideSpaces[k].c = c].utf8]

\* the bytes of a character
BytesOf(c) ==
    IF IsByteTok(c) THEN <<16 * unhex(CharAt(c, 2)) + unhex(CharAt(c, 3))>> ELSE Utf8[c]

\* the character a byte is, or the byte itself when it is none
CharOfByte(n) ==
    IF n >= 32 /\ n <= 126 THEN CharAt(Printable, n - 31)
    ELSE IF n >= 9 /\ n <= 13 THEN Controls[n - 8]
    ELSE Hex2(n)

\* the elements of s from index i on begin with the UTF-8 bytes of the k-th wide
\* space
IsWideAt(s, i, k) ==
    /\ i >= 1
    /\ i + Len(WideSpaces[k].utf8) - 1 <= Len(s)
    /\ \A j \in 1..Len(WideSpaces[k].utf8) : s[i + j - 1] = Hex2(WideSpaces[k].utf8[j])

\* the element at index i of s, joined with the bytes after it when they are the
\* UTF-8 bytes of a character of the alphabet; nothing for the bytes so joined
JoinedAt(s, i) ==
    IF \E k \in 1..Len(WideSpaces) : IsWideAt(s, i, k)
    THEN <<WideSpaces[CHOOSE k \in 1..Len(WideSpaces) : IsWideAt(s, i, k)].c>>
    ELSE IF \E k \in 1..Len(WideSpaces), d \in 1..2 :
                d < Len(WideSpaces[k].utf8) /\ IsWideAt(s, i - d, k)
    THEN <<>>
    ELSE <<s[i]>>

\* a decoded string with the bytes that are a character of the alphabet joined
JoinBytes(s) ==
    IF \E i \in 1..Len(s) : IsByteTok(s[i])
    THEN Concat([i \in 1..Len(s) |-> JoinedAt(s, i)])
    ELSE s

ToLowerChar(c) == IF IsUpper(c) THEN CharAt(LowerLetters, Index(Chars(UpperLetters), c)) ELSE c
\* strings.ToLower on a sequence of characters
ToLower(s) == [k \in 1..Len(s) |-> ToLowerChar(s[k])]
\* strings.ToLower on a token
ToLowerTok(t) == Str(ToLower(Chars(t)))

----------------------------------------------------------------------------
(* Strings.                                                                 *)

RECURSIVE SeqsUpTo(_, _)
SeqsUpTo(S, n) ==
    IF n = 0 THEN {<<>>}
    ELSE LET shorter == SeqsUpTo(S, n - 1)
         IN  shorter \cup {Append(s, x) : s \in {t \in shorter : Len(t) = n - 1}, x \in S}

RECURSIVE TrimLeftChars(_)
TrimLeftChars(s) ==
    IF s # <<>> /\ IsSpace(Head(s)) THEN TrimLeftChars(Tail(s)) ELSE s

RECURSIVE TrimRightChars(_)
TrimRightChars(s) ==
    IF s # <<>> /\ IsSpace(s[Len(s)]) THEN TrimRightChars(SubSeq(s, 1, Len(s) - 1)) ELSE s

\* a token without the white space at its start, and at its end
TrimTokLeft(t) == Str(TrimLeftChars(Chars(t)))
TrimTokRight(t) == Str(TrimRightChars(Chars(t)))

RECURSIVE TrimLeft(_)
TrimLeft(s) ==
    IF s = <<>> THEN s
    ELSE IF TrimTokLeft(Head(s)) = "" THEN TrimLeft(Tail(s))
    ELSE <<TrimTokLeft(Head(s))>> \o Tail(s)

RECURSIVE TrimRight(_)
TrimRight(s) ==
    IF s = <<>> THEN s
    ELSE IF TrimTokRight(s[Len(s)]) = "" THEN TrimRight(SubSeq(s, 1, Len(s) - 1))
    ELSE SubSeq(s, 1, Len(s) - 1) \o <<TrimTokRight(s[Len(s)])>>

\* strings.TrimSpace
TrimSpace(s) == TrimRight(TrimLeft(s))

RECURSIVE TrimSuffixDot(_)
\* strings.TrimSuffix(s, ".")
TrimSuffixDot(s) ==
    IF s = <<>> THEN s
    ELSE IF Len(s[Len(s)]) = 0
    THEN TrimSuffixDot(SubSeq(s, 1, Len(s) - 1)) \o <<"">>
    ELSE IF CharAt(s[Len(s)], Len(s[Len(s)])) # "." THEN s
    ELSE SubSeq(s, 1, Len(s) - 1) \o <<SubSeq(s[Len(s)], 1, Len(s[Len(s)]) - 1)>>

\* strings.HasPrefix on sequences
HasPrefix(s, p) == Len(s) >= Len(p) /\ SubSeq(s, 1, Len(p)) = p

----------------------------------------------------------------------------
(* Errors.  Every error value is a record with a kind; NilErr is "no error".*)

NilErr == [kind |-> "nil"]

LocalErr(m) == [kind |-> "local", msg |-> m]

\* fmt.Errorf("...: %w", err): an error that wraps another one
WrapErr(m, inner) == [kind |-> "wrapped", msg |-> m, wraps |-> inner]

----------------------------------------------------------------------------
(* net/url as the client uses it.  A URL text is a sequence of characters.  *)

NoUser == [set |-> FALSE, name |-> <<>>, hasPassword |-> FALSE, password |-> <<>>]

NilURL == [scheme |-> <<>>, opaque |-> <<>>, user |-> NoUser, host |-> <<>>,
           path |-> <<>>, rawPath |-> <<>>, omitHost |-> FALSE, forceQuery |-> FALSE,
           rawQuery |-> <<>>, fragment |-> <<>>, rawFragment |-> <<>>]

ParseError == [err |-> TRUE, url |-> NilURL]

\* strings.Cut(s, c) with c found at index i (0: not found)
Before(s, i) == IF i = 0 THEN s ELSE SubSeq(s, 1, i - 1)
After(s, i) == IF i = 0 THEN <<>> ELSE SubSeq(s, i + 1, Len(s))

\* url.shouldEscape(c, mode)
ReservedEscaped(c, mode) ==
    CASE mode = "path" -> c = "?"
      [] mode = "pathSegment" -> c \in {"/", ";", ",", "?"}
      [] mode = "userPassword" -> c \in {"@", "/", "?", ":"}
      [] mode = "queryComponent" -> TRUE
      [] mode = "fragment" -> FALSE
      [] OTHER -> TRUE

shouldEscape(c, mode) ==
    IF IsAlnum(c) THEN FALSE
    ELSE IF mode \in {"host", "zone"}
            /\ c \in {"!", "$", "&", "'", "(", ")", "*", "+", ",", ";", "=", ":", "[", "]",
                      "<", ">", "\""}
    THEN FALSE
    ELSE IF c \in {"-", "_", ".", "~"} THEN FALSE
    ELSE IF c \in {"$", "&", "+", ",", "/", ":", ";", "=", "?", "@"}
    THEN ReservedEscaped(c, mode)
    ELSE IF mode = "fragment" /\ c \in {"!", "(", ")", "*"} THEN FALSE
    ELSE TRUE

RECURSIVE PercentBytes(_)
\* the bytes bs written %XX%XX..., as characters
PercentBytes(bs) ==
    IF bs = <<>> THEN <<>> ELSE Chars(Hex2(Head(bs))) \o PercentBytes(Tail(bs))

\* one character as url.escape writes it
EscapeChar(c, mode) ==
    IF ~IsByteTok(c) /\ ~shouldEscape(c, mode) THEN <<c>>
    ELSE IF c = " " /\ mode = "queryComponent" THEN <<"+">>
    ELSE PercentBytes(BytesOf(c))

\* url.escape(s, mode)
escape(s, mode) == Concat([k \in 1..Len(s) |-> EscapeChar(s[k], mode)])

\* url.PathEscape and url.QueryEscape of a string given as tokens
PathEscape(s) == escape(Flatten(s), "pathSegment")
QueryEscape(s) == escape(Flatten(s), "queryComponent")

\* the byte the escape at index i of s stands for
EscapedByte(s, i) == 16 * unhex(s[i + 1]) + unhex(s[i + 2])

\* the byte b, escaped as other than "%25", is refused in a zone
BadZoneByte(b) == b # 32 /\ (b >= 128 \/ shouldEscape(CharOfByte(b), "host"))

\* the escape at index i of s is refused in the mode
BadEscape(s, i, mode) ==
    \/ i + 2 > Len(s)
    \/ ~ishex(s[i + 1])
    \/ ~ishex(s[i + 2])
    \/ /\ SubSeq(s, i, i + 2) # <<"%", "2", "5">>
       /\ \/ mode = "host" /\ unhex(s[i + 1]) < 8
          \/ mode = "zone" /\ BadZoneByte(EscapedByte(s, i))

\* the character at index i of s is refused in the mode
BadChar(s, i, mode) ==
    IF s[i] = "%" THEN BadEscape(s, i, mode)
    ELSE /\ mode \in {"host", "zone"}
         /\ s[i] # "+"
         /\ IsASCII(s[i])
         /\ shouldEscape(s[i], mode)

\* what the character at index i of s, none of its escapes refused, decodes to:
\* the byte of an escape at its "%", nothing at the two digits after it
DecodedAt(s, i, mode) ==
    IF s[i] = "%" THEN <<CharOfByte(EscapedByte(s, i))>>
    ELSE IF (i > 1 /\ s[i - 1] = "%") \/ (i > 2 /\ s[i - 2] = "%") THEN <<>>
    ELSE IF s[i] = "+" /\ mode = "queryComponent" THEN <<" ">>
    ELSE <<s[i]>>

\* url.unescape(s, mode): [err, text]
unescape(s, mode) ==
    IF \E i \in 1..Len(s) : BadChar(s, i, mode) THEN [err |-> TRUE, text |-> <<>>]
    ELSE [err |-> FALSE,
          text |-> JoinBytes(Concat([i \in 1..Len(s) |-> DecodedAt(s, i, mode)]))]

\* url.validEncoded(s, mode)
validEncoded(s, mode) ==
    \A k \in 1..Len(s) :
        \/ s[k] \in {"!", "$", "&", "'", "(", ")", "*", "+", ",", ";", "=", ":", "@",
                     "[", "]", "%"}
        \/ ~IsByteTok(s[k]) /\ ~shouldEscape(s[k], mode)

\* url.stringContainsCTLByte: a byte below 0x20, or 0x7F
IsCTLByte(b) == b < 32 \/ b = 127
stringContainsCTLByte(s) == \E k \in 1..Len(s) : IsCTLByte(BytesOf(s[k])[1])

RECURSIVE getSchemeFrom(_, _)
\* url.getScheme, the loop from index i on: [err, scheme, rest]
getSchemeFrom(raw, i) ==
    IF i > Len(raw) THEN [err |-> FALSE, scheme |-> <<>>, rest |-> raw]
    ELSE IF IsLetter(raw[i]) THEN getSchemeFrom(raw, i + 1)
    ELSE IF IsDigit(raw[i]) \/ raw[i] \in {"+", "-", "."}
         THEN IF i = 1 THEN [err |-> FALSE, scheme |-> <<>>, rest |-> raw]
              ELSE getSchemeFrom(raw, i + 1)
    ELSE IF raw[i] = ":"
         THEN IF i = 1 THEN [err |-> TRUE, scheme |-> <<>>, rest |-> raw]
              ELSE [err |-> FALSE, scheme |-> SubSeq(raw, 1, i - 1),
                    rest |-> SubSeq(raw, i + 1, Len(raw))]
    ELSE [err |-> FALSE, scheme |-> <<>>, rest |-> raw]

getScheme(raw) == getSchemeFrom(raw, 1)

\* url.validOptionalPort
validOptionalPort(port) ==
    \/ port = <<>>
    \/ port[1] = ":" /\ \A k \in 2..Len(port) : IsDigit(port[k])

\* url.validUserinfo
validUserinfo(s) ==
    \A k \in 1..Len(s) :
        \/ IsAlnum(s[k])
        \/ s[k] \in {"-", ".", "_", ":", "~", "!", "$", "&", "'", "(", ")", "*", "+", ",",
                     ";", "=", "%", "@"}

\* "%25" is at index i of s and ends below index n
IsZoneAt(s, i, n) == i + 2 < n /\ SubSeq(s, i, i + 2) = <<"%", "2", "5">>

\* the index of the first "%25" of s that ends below index n; 0 when none
ZoneIndex(s, n) ==
    IF \E i \in 1..Len(s) : IsZoneAt(s, i, n)
    THEN CHOOSE i \in 1..Len(s) :
             IsZoneAt(s, i, n) /\ \A j \in 1..(i - 1) : ~IsZoneAt(s, j, n)
    ELSE 0

\* the parts of a host that url.parseHost unescapes one by one: before the zone,
\* the zone, and from the last "]" (at index i) on; the whole host when it has no
\* zone
HostParts(host, i, zone) ==
    IF zone = 0 THEN <<host, <<>>, <<>>>>
    ELSE <<SubSeq(host, 1, zone - 1), SubSeq(host, zone, i - 1), SubSeq(host, i, Len(host))>>

\* the parts unescaped and joined: [err, text]
JoinHost(hs) ==
    IF \E k \in 1..3 : hs[k].err THEN [err |-> TRUE, text |-> <<>>]
    ELSE [err |-> FALSE, text |-> hs[1].text \o hs[2].text \o hs[3].text]

UnescapeHost(parts) ==
    JoinHost([k \in 1..3 |-> unescape(parts[k], IF k = 2 THEN "zone" ELSE "host")])

\* url.parseHost for a host that has brackets or not, its last "]" at index i and
\* its last ":" at index colon
ParseHostAt(host, brackets, i, colon) ==
    IF brackets /\ i = 0 THEN [err |-> TRUE, text |-> <<>>]
    ELSE IF brackets /\ ~validOptionalPort(SubSeq(host, i + 1, Len(host)))
    THEN [err |-> TRUE, text |-> <<>>]
    ELSE IF ~brackets /\ colon > 0 /\ ~validOptionalPort(SubSeq(host, colon, Len(host)))
    THEN [err |-> TRUE, text |-> <<>>]
    ELSE UnescapeHost(HostParts(host, i, IF brackets THEN ZoneIndex(host, i) ELSE 0))

\* url.parseHost: [err, text]
parseHost(host) ==
    ParseHostAt(host, HasPrefix(host, <<"[">>), LastIndex(host, "]"), LastIndex(host, ":"))

\* the Userinfo of a user name and a password that were unescaped: [err, user]
UserOf(parts, hasPassword) ==
    IF parts[1].err \/ parts[2].err THEN [err |-> TRUE, user |-> NoUser]
    ELSE [err |-> FALSE,
          user |-> [set |-> TRUE, name |-> parts[1].text, hasPassword |-> hasPassword,
                    password |-> parts[2].text]]

\* the userinfo before the "@" of an authority, its first ":" at index colon (the
\* password is what follows it): [err, user]
parseUserinfo(userinfo, colon) ==
    IF ~validUserinfo(userinfo) THEN [err |-> TRUE, user |-> NoUser]
    ELSE UserOf([k \in 1..2 |->
                    unescape(IF k = 1 THEN Before(userinfo, colon)
                             ELSE After(userinfo, colon), "userPassword")],
                colon # 0)

\* host and user of an authority: [err, user, host]
AuthorityOf(h, u) ==
    IF h.err \/ u.err THEN [err |-> TRUE, user |-> NoUser, host |-> <<>>]
    ELSE [err |-> FALSE, user |-> u.user, host |-> h.text]

NoAuthority == [err |-> FALSE, user |-> NoUser, host |-> <<>>]

\* url.parseAuthority, at being the index of the last "@" (0: no userinfo)
parseAuthority(authority, at) ==
    AuthorityOf(parseHost(IF at = 0 THEN authority ELSE After(authority, at)),
                IF at = 0 THEN [err |-> FALSE, user |-> NoUser]
                ELSE parseUserinfo(Before(authority, at),
                                   Index(Before(authority, at), ":")))

\* (*URL).setPath(p), p unescaped being d
SetPath(u, p, d) ==
    IF d.err THEN ParseError
    ELSE [err |-> FALSE,
          url |-> [u EXCEPT !.path = d.text,
                            !.rawPath = IF escape(d.text, "path") = p THEN <<>> ELSE p]]

setPath(u, p) == SetPath(u, p, unescape(p, "path"))

\* url.parse from the authority on: a is the authority parsed, or NoAuthority
ParsePath(u, a, omitHost, path) ==
    IF a.err THEN ParseError
    ELSE setPath([u EXCEPT !.user = a.user, !.host = a.host, !.omitHost = omitHost], path)

\* url.parse on a hierarchical rest; hasAuthority: rest begins with "//" and the
\* authority follows, which ends before index slash of afterAuth
ParseHier(u, rest, hasAuthority, afterAuth, slash) ==
    ParsePath(u,
              IF hasAuthority
              THEN parseAuthority(Before(afterAuth, slash),
                                  LastIndex(Before(afterAuth, slash), "@"))
              ELSE NoAuthority,
              ~hasAuthority /\ u.scheme # <<>> /\ HasPrefix(rest, <<"/">>),
              IF ~hasAuthority THEN rest
              ELSE IF slash = 0 THEN <<>>
              ELSE SubSeq(afterAuth, slash, Len(afterAuth)))

\* url.parse once scheme and query have been split off
ParseRest(u, rest) ==
    IF ~HasPrefix(rest, <<"/">>) /\ u.scheme # <<>>
    THEN [err |-> FALSE, url |-> [u EXCEPT !.opaque = rest]]
    ELSE IF ~HasPrefix(rest, <<"/">>) /\ Contains(Before(rest, Index(rest, "/")), ":")
    THEN ParseError
    ELSE ParseHier(u, rest,
                   (u.scheme # <<>> \/ ~HasPrefix(rest, <<"/", "/", "/">>))
                       /\ HasPrefix(rest, <<"/", "/">>),
                   SubSeq(rest, 3, Len(rest)), Index(SubSeq(rest, 3, Len(rest)), "/"))

\* the number of "?" in s
CountQ(s) == Cardinality({k \in 1..Len(s) : s[k] = "?"})

\* url.parse from the split of the query on; force: rest ends with its only "?"
SplitQuery(u, rest, force) ==
    ParseRest(IF force THEN [u EXCEPT !.forceQuery = TRUE]
              ELSE [u EXCEPT !.rawQuery = After(rest, Index(rest, "?"))],
              IF force THEN SubSeq(rest, 1, Len(rest) - 1)
              ELSE Before(rest, Index(rest, "?")))

ParseQuery(u, rest) ==
    SplitQuery(u, rest, rest # <<>> /\ rest[Len(rest)] = "?" /\ CountQ(rest) = 1)

\* url.parse once getScheme has given s; the scheme is put in lower case
ParseScheme(s) ==
    IF s.err THEN ParseError
    ELSE ParseQuery([NilURL EXCEPT !.scheme = ToLower(s.scheme)], s.rest)

\* url.parse(rawURL, false)
parse(raw) ==
    IF stringContainsCTLByte(raw) THEN ParseError
    ELSE IF raw = <<"*">> THEN [err |-> FALSE, url |-> [NilURL EXCEPT !.path = <<"*">>]]
    ELSE ParseScheme(getScheme(raw))

\* (*URL).setFragment(f) on what parse gave, f unescaped being d
SetFragment(r, f, d) ==
    IF r.err \/ d.err THEN ParseError
    ELSE [r EXCEPT !.url.fragment = d.text,
                   !.url.rawFragment =
                       IF escape(d.text, "fragment") = f THEN <<>> ELSE f]

\* url.Parse of characters, the first "#" at index hash; an empty fragment sets
\* nothing
ParseChars(raw, hash) ==
    SetFragment(parse(Before(raw, hash)), After(raw, hash),
                unescape(After(raw, hash), "fragment"))

\* url.Parse of a string given as tokens: [err, url]
ParseURL(raw) == ParseChars(Flatten(raw), Index(Flatten(raw), "#"))

\* (*url.URL).IsAbs
IsAbs(u) == u.scheme # <<>>

\* raw, unescaped as d, is an encoding of text
Encodes(raw, d, text, mode) ==
    raw # <<>> /\ validEncoded(raw, mode) /\ ~d.err /\ d.text = text

\* (*URL).EscapedPath
EscapedPath(u) ==
    IF Encodes(u.rawPath, unescape(u.rawPath, "path"), u.path, "path") THEN u.rawPath
    ELSE IF u.path = <<"*">> THEN u.path
    ELSE escape(u.path, "path")

\* (*URL).EscapedFragment
EscapedFragment(u) ==
    IF Encodes(u.rawFragment, unescape(u.rawFragment, "fragment"), u.fragment, "fragment")
    THEN u.rawFragment
    ELSE escape(u.fragment, "fragment")

\* one part of a Userinfo as (*Userinfo).String writes it
UserPart(user, k) == escape(IF k = 1 THEN user.name ELSE user.password, "userPassword")

\* (*Userinfo).String
UserString(user) ==
    UserPart(user, 1) \o (IF user.hasPassword THEN <<":">> \o UserPart(user, 2) ELSE <<>>)

\* the "//", user and host that (*URL).String writes
AuthorityString(u) ==
    IF u.scheme = <<>> /\ u.host = <<>> /\ ~u.user.set THEN <<>>
    ELSE IF u.omitHost /\ u.host = <<>> /\ ~u.user.set THEN <<>>
    ELSE (IF u.host # <<>> \/ u.path # <<>> \/ u.user.set THEN <<"/", "/">> ELSE <<>>)
         \o (IF u.user.set THEN UserString(u.user) \o <<"@">> ELSE <<>>)
         \o escape(u.host, "host")

\* the path that (*URL).String writes after the text before
PathString(before, u, path) ==
    before
    \o (IF path # <<>> /\ path[1] # "/" /\ u.host # <<>> THEN <<"/">> ELSE <<>>)
    \o (IF before = <<>> /\ u.host = <<>>
           /\ Contains(Before(path, Index(path, "/")), ":")
        THEN <<".", "/">> ELSE <<>>)
    \o path

\* scheme, authority and path of (*URL).String
HierString(scheme, u) ==
    IF u.opaque # <<>> THEN scheme \o u.opaque
    ELSE PathString(scheme \o AuthorityString(u), u, EscapedPath(u))

\* (*url.URL).String
URLString(u) ==
    HierString(IF u.scheme # <<>> THEN u.scheme \o <<":">> ELSE <<>>, u)
    \o (IF u.forceQuery \/ u.rawQuery # <<>> THEN <<"?">> \o u.rawQuery ELSE <<>>)
    \o (IF u.fragment # <<>> THEN <<"#">> \o EscapedFragment(u) ELSE <<>>)

RECURSIVE Split(_)
\* the segments between the "/" of s
SplitAt(s, i) ==
    IF i = 0 THEN <<s>>
    ELSE <<SubSeq(s, 1, i - 1)>> \o Split(SubSeq(s, i + 1, Len(s)))

Split(s) == SplitAt(s, Index(s, "/"))

dot == <<".">>
dotdot == <<".", ".">>

RECURSIVE ResolveElems(_, _, _, _)
\* the loop of url.resolvePath over the segments from index k on
\* a ".." segment: dst loses its last segment; str is dst without its first "/"
PopSegment(elems, k, str, index, first) ==
    IF index = 0
    THEN ResolveElems(elems, k + 1, <<"/">>, TRUE)
    ELSE ResolveElems(elems, k + 1, <<"/">> \o SubSeq(str, 1, index - 1), first)

ResolveElems(elems, k, dst, first) ==
    IF k > Len(elems) THEN dst
    ELSE IF elems[k] = dot THEN ResolveElems(elems, k + 1, dst, FALSE)
    ELSE IF elems[k] = dotdot
    THEN PopSegment(elems, k, Tail(dst), LastIndex(Tail(dst), "/"), first)
    ELSE ResolveElems(elems, k + 1,
                      (IF first THEN dst ELSE Append(dst, "/")) \o elems[k], FALSE)

\* url.resolvePath(base, ref): ref against base, dot segments removed (RFC 3986 5.2)
\* the end of resolvePath: no two "/" at the start
TrimDoubleSlash(r) == IF Len(r) > 1 /\ r[2] = "/" THEN Tail(r) ELSE r

\* a "/" is added when the last segment was a dot segment
CloseDots(last, dst) ==
    TrimDoubleSlash(IF last = dot \/ last = dotdot THEN Append(dst, "/") ELSE dst)

ResolveSegments(elems) ==
    CloseDots(elems[Len(elems)], ResolveElems(elems, 1, <<"/">>, TRUE))

ResolveFull(full) == IF full = <<>> THEN <<>> ELSE ResolveSegments(Split(full))

resolvePath(base, ref) ==
    ResolveFull(IF ref = <<>> THEN base
                ELSE IF ref[1] # "/" THEN SubSeq(base, 1, LastIndex(base, "/")) \o ref
                ELSE ref)

\* url.setPath(p) with its error dropped: u is left as it is when p is refused
PathSet(u, r) == IF r.err THEN u ELSE r.url

\* a faulty variant of ResolveReference: the reference's path is appended to the
\* base's path
ResolveReferenceConcat(u, ref) ==
    PathSet([ref EXCEPT !.scheme = u.scheme, !.host = u.host, !.user = u.user],
            setPath([ref EXCEPT !.scheme = u.scheme, !.host = u.host, !.user = u.user],
                    EscapedPath(u) \o EscapedPath(ref)))

\* the query and fragment a reference without path and query takes from the base
InheritQuery(u, ref, url) ==
    IF ref.path = <<>> /\ ~ref.forceQuery /\ ref.rawQuery = <<>>
    THEN IF ref.fragment = <<>>
         THEN [url EXCEPT !.rawQuery = u.rawQuery, !.fragment = u.fragment,
                          !.rawFragment = u.rawFragment]
         ELSE [url EXCEPT !.rawQuery = u.rawQuery]
    ELSE url

\* url.setPath(resolvePath(base, ref)) on url
SetResolved(url, base, ref) == PathSet(url, setPath(url, resolvePath(base, ref)))

\* ResolveReference once the copy url of ref has its scheme; own: the reference
\* has a scheme, a host or a user; resolved: the copy with the path resolved
ResolveCopy(u, ref, url, own, resolved) ==
    IF own THEN resolved
    ELSE IF ref.opaque # <<>>
    THEN [url EXCEPT !.user = NoUser, !.host = <<>>, !.path = <<>>]
    ELSE IF ref.path = <<>> /\ u.opaque # <<>>
    THEN [InheritQuery(u, ref, url) EXCEPT
             !.opaque = u.opaque, !.user = NoUser, !.host = <<>>, !.path = <<>>]
    ELSE resolved

\* ResolveReference with the escaped paths of base and reference
ResolvePaths(u, ref, url, own, basePath, refPath) ==
    ResolveCopy(u, ref, url, own,
                SetResolved(IF own THEN url
                            ELSE [InheritQuery(u, ref, url) EXCEPT
                                     !.host = u.host, !.user = u.user],
                            IF own THEN refPath ELSE basePath,
                            IF own THEN <<>> ELSE refPath))

\* (*url.URL).ResolveReference
ResolveReference(u, ref) ==
    ResolvePaths(u, ref, IF ref.scheme = <<>> THEN [ref EXCEPT !.scheme = u.scheme] ELSE ref,
                 ref.scheme # <<>> \/ ref.host # <<>> \/ ref.user.set,
                 EscapedPath(u), EscapedPath(ref))

\* http.removeEmptyPort
removeEmptyPort(host) ==
    IF LastIndex(host, ":") > LastIndex(host, "]") /\ host[Len(host)] = ":"
    THEN SubSeq(host, 1, Len(host) - 1)
    ELSE host

----------------------------------------------------------------------------
(* Construction: client.go.                                                 *)

defaultBaseURL == <<"https", ":", "/", "/", "api.ns.enzonix.com">>
defaultUserAgent == <<"enzonix-dns-sdk-go/0.1.0">>
\* &http.Client{Timeout: defaultTimeout}
defaultHTTPClient == <<"default">>
\* a nil *http.Client
nilHTTPClient == <<>>

NilClient == [nil |-> TRUE, baseURL |-> NilURL, apiKey |-> <<>>,
              httpClient |-> nilHTTPClient, userAgent |-> <<>>]

\* the three exported options, and a nil Option value
OptBaseURL(raw) == [opt |-> "WithBaseURL", arg |-> raw]
OptHTTPClient(h) == [opt |-> "WithHTTPClient", arg |-> h]
OptUserAgent(ua) == [opt |-> "WithUserAgent", arg |-> ua]
OptNil == [opt |-> "nil", arg |-> <<>>]

\* the closure WithBaseURL returns, applied to client c: [client, err]
SetBaseURL(parsed, c) ==
    IF parsed.err
    THEN [client |-> c, err |-> WrapErr("parse base url", LocalErr("url.Parse"))]
    ELSE IF ~IsAbs(parsed.url)
    THEN [client |-> c, err |-> LocalErr("base url must be absolute")]
    ELSE [client |-> [c EXCEPT !.baseURL = parsed.url], err |-> NilErr]

WithBaseURL(rawURL, c) ==
    IF TrimSpace(rawURL) = <<>>
    THEN [client |-> c, err |-> LocalErr("base url must not be empty")]
    ELSE SetBaseURL(ParseURL(rawURL), c)

\* a faulty variant of WithHTTPClient: the nil check is missing
WithHTTPClientUnchecked(httpClient, c) ==
    [client |-> [c EXCEPT !.httpClient = httpClient], err |-> NilErr]

\* the closure WithHTTPClient returns
WithHTTPClient(httpClient, c) ==
    IF httpClient = nilHTTPClient
    THEN [client |-> c, err |-> LocalErr("http client must not be nil")]
    ELSE [client |-> [c EXCEPT !.httpClient = httpClient], err |-> NilErr]

\* the closure WithUserAgent returns
WithUserAgent(ua, c) ==
    [client |-> [c EXCEPT !.userAgent = TrimSpace(ua)], err |-> NilErr]

\* opt(client) for a non-nil option
ApplyOption(o, c) ==
    CASE o.opt = "WithBaseURL" -> WithBaseURL(o.arg, c)
      [] o.opt = "WithHTTPClient" -> WithHTTPClient(o.arg, c)
      [] o.opt = "WithUserAgent" -> WithUserAgent(o.arg, c)

RECURSIVE ApplyOpts(_, _, _, _)
\* a faulty variant of AfterOption: the loop goes on after a failed option, and
\* its error is returned at the end
AfterOptionNoStop(r, opts, i, done) ==
    IF r.err # NilErr
    THEN [ApplyOpts(r.client, opts, i + 1, Append(done, i))
             EXCEPT !.client = NilClient, !.err = r.err]
    ELSE ApplyOpts(r.client, opts, i + 1, Append(done, i))

\* NewClient's loop once option i has returned r
AfterOption(r, opts, i, done) ==
    IF r.err # NilErr
    THEN [client |-> NilClient, err |-> r.err, ran |-> Append(done, i)]
    ELSE ApplyOpts(r.client, opts, i + 1, Append(done, i))

\* the loop over opts of NewClient, from index i on: [client, err, ran]
ApplyOpts(c, opts, i, done) ==
    IF i > Len(opts) THEN [client |-> c, err |-> NilErr, ran |-> done]
    ELSE IF opts[i] = OptNil THEN ApplyOpts(c, opts, i + 1, done)
    ELSE AfterOption(ApplyOption(opts[i], c), opts, i, done)

\* NewClient(apiKey, opts...): [client, err, ran]
\* the end of NewClient, r being what the loop over the options gave
AfterOptions(r) ==
    IF r.err # NilErr THEN r
    ELSE IF r.client.httpClient = nilHTTPClient
    THEN [r EXCEPT !.client.httpClient = defaultHTTPClient]
    ELSE r

\* NewClient from the parsed default base URL on
WithDefaults(base, apiKey, opts) ==
    IF base.err
    THEN [client |-> NilClient,
          err |-> WrapErr("parse default base url", LocalErr("url.Parse")), ran |-> <<>>]
    ELSE AfterOptions(ApplyOpts([nil |-> FALSE, baseURL |-> base.url, apiKey |-> apiKey,
                                 httpClient |-> defaultHTTPClient,
                                 userAgent |-> defaultUserAgent],
                                opts, 1, <<>>))

NewClient(apiKey, opts) ==
    IF TrimSpace(apiKey) = <<>>
    THEN [client |-> NilClient, err |-> LocalErr("api key must not be empty"), ran |-> <<>>]
    ELSE WithDefaults(ParseURL(defaultBaseURL), apiKey, opts)

----------------------------------------------------------------------------
(* encoding/json as the response handler uses it.  A body is a sequence of  *)
(* tokens: white space, the punctuation { } [ ] : , and atoms.  A string    *)
(* literal is one token, the word between double quotes.                    *)

\* a time of day as RFC 3339 writes it
TimeWords == {"2024-01-02T03:04:05Z"}
Words == {"", "message", "code", "raw", "records", "id", "oops", "bad_request", "x",
          "api_token", "new", "Message", "created_at", "ttl"} \cup TimeWords
NumToks == {"0", "1", "400", "-1", "1.5"}

Quote(w) == "\"" \o w \o "\""
StrLits == {Quote(w) : w \in Words}
IsStrLit(t) == t \in StrLits
Unquote(t) == CHOOSE w \in Words : t = Quote(w)
\* the Go string a string literal decodes to
TextOf(w) == IF w = "" THEN <<>> ELSE <<w>>

\* the white space of encoding/json: space, \t, \r, \n
IsJSONSpace(c) == c \in {" ", "\t", "\r", "\n"}

RECURSIVE SkipWS(_, _)
SkipWS(b, i) == IF i <= Len(b) /\ IsJSONSpace(b[i]) THEN SkipWS(b, i + 1) ELSE i

ParseFail == [ok |-> FALSE, val |-> [t |-> "invalid", from |-> 0, to |-> 0], next |-> 0]
Parsed(v, j, n) == [ok |-> TRUE, val |-> [v EXCEPT !.from = j, !.to = n - 1], next |-> n]

RECURSIVE ParseValue(_, _), ParseElems(_, _, _, _), ParseMembers(_, _, _, _)

\* one JSON value starting at or after index i of b: [ok, val, next]
ParseValue(b, i) ==
    LET j == SkipWS(b, i)
    IN  IF j > Len(b) THEN ParseFail
        ELSE IF IsStrLit(b[j])
             THEN Parsed([t |-> "string", s |-> Unquote(b[j]), from |-> 0, to |-> 0], j, j + 1)
        ELSE IF b[j] = "null" THEN Parsed([t |-> "null", from |-> 0, to |-> 0], j, j + 1)
        ELSE IF b[j] \in {"true", "false"}
             THEN Parsed([t |-> "bool", from |-> 0, to |-> 0], j, j + 1)
        ELSE IF b[j] \in NumToks
             THEN Parsed([t |-> "number", n |-> b[j], from |-> 0, to |-> 0], j, j + 1)
        ELSE IF b[j] = "["
             THEN LET k == SkipWS(b, j + 1)
                  IN  IF k <= Len(b) /\ b[k] = "]"
                      THEN Parsed([t |-> "array", items |-> <<>>, from |-> 0, to |-> 0], j, k + 1)
                      ELSE ParseElems(b, j, j + 1, <<>>)
        ELSE IF b[j] = "{"
             THEN LET k == SkipWS(b, j + 1)
                  IN  IF k <= Len(b) /\ b[k] = "}"
                      THEN Parsed([t |-> "object", items |-> <<>>, from |-> 0, to |-> 0], j, k + 1)
                      ELSE ParseMembers(b, j, j + 1, <<>>)
        ELSE ParseFail

\* the elements of the array opened at index start, the next one expected at i
ParseElems(b, start, i, acc) ==
    LET v == ParseValue(b, i)
        j == SkipWS(b, v.next)
    IN  IF ~v.ok \/ j > Len(b) THEN ParseFail
        ELSE IF b[j] = "," THEN ParseElems(b, start, j + 1, Append(acc, v.val))
        ELSE IF b[j] = "]"
             THEN Parsed([t |-> "array", items |-> Append(acc, v.val), from |-> 0, to |-> 0],
                         start, j + 1)
        ELSE ParseFail

\* the members of the object opened at index start, the next key expected at i
ParseMembers(b, start, i, acc) ==
    LET k == SkipWS(b, i)
        c == SkipWS(b, k + 1)
        v == ParseValue(b, c + 1)
        j == SkipWS(b, v.next)
    IN  IF k > Len(b) \/ c > Len(b) THEN ParseFail
        ELSE IF ~IsStrLit(b[k]) \/ b[c] # ":" THEN ParseFail
        ELSE IF ~v.ok \/ j > Len(b) THEN ParseFail
        ELSE LET m == Append(acc, [key |-> Unquote(b[k]), val |-> v.val])
             IN  IF b[j] = "," THEN ParseMembers(b, start, j + 1, m)
                 ELSE IF b[j] = "}"
                      THEN Parsed([t |-> "object", items |-> m, from |-> 0, to |-> 0],
                                  start, j + 1)
                 ELSE ParseFail

\* a whole document: one value and nothing but white space after it
ParseJSON(b) ==
    LET v == ParseValue(b, 1)
    IN  IF v.ok /\ SkipWS(b, v.next) > Len(b) THEN v ELSE ParseFail

\* the name a key is matched to a field under: encoding/json takes the field whose
\* name is the key, or else the one that equals it when case is ignored
FoldName(key) == ToLowerTok(key)

\* the Go types the responses are decoded into; a pointer decodes as what it
\* points to, and json:"-" fields are left out
TNil == [k |-> "nil"]
TString == [k |-> "string"]
TBool == [k |-> "bool"]
TInt == [k |-> "int"]
TUint == [k |-> "uint"]
TTime == [k |-> "time"]
TSlice(e) == [k |-> "slice", elem |-> e]
TStruct(fs) == [k |-> "struct", fields |-> fs]
Field(n, t) == [name |-> n, type |-> t]

\* a JSON number that strconv.ParseInt takes
IsInteger(n) ==
    /\ Len(n) > 0
    /\ \A i \in 1..Len(n) : IsDigit(CharAt(n, i)) \/ (i = 1 /\ Len(n) > 1 /\ CharAt(n, i) = "-")
IsNegative(n) == CharAt(n, 1) = "-"

RECURSIVE FitsType(_, _)
\* the member m of an object fits the field of the struct it is matched to
MemberFits(fields, m) ==
    \A f \in 1..Len(fields) :
        FoldName(fields[f].name) = FoldName(m.key) => FitsType(fields[f].type, m.val)

\* json.Unmarshal stores the JSON value v in a target of type T without an
\* UnmarshalTypeError and without an error of (*time.Time).UnmarshalJSON; null is
\* stored in no target and fits each
FitsType(T, v) ==
    IF v.t = "null" THEN TRUE
    ELSE CASE T.k = "string" -> v.t = "string"
           [] T.k = "bool" -> v.t = "bool"
           [] T.k = "int" -> v.t = "number" /\ IsInteger(v.n)
           [] T.k = "uint" -> v.t = "number" /\ IsInteger(v.n) /\ ~IsNegative(v.n)
           [] T.k = "time" -> v.t = "string" /\ v.s \in TimeWords
           [] T.k = "slice" ->
                v.t = "array" /\ \A k \in 1..Len(v.items) : FitsType(T.elem, v.items[k])
           [] T.k = "struct" ->
                v.t = "object" /\ \A k \in 1..Len(v.items) : MemberFits(T.fields, v.items[k])
           [] OTHER -> FALSE

----------------------------------------------------------------------------
(* APIError and the decoding of an error body into it.                      *)

APIError(status) ==
    [kind |-> "api", StatusCode |-> status, Message |-> <<>>, Code |-> <<>>, Raw |-> <<>>]

\* a string field of a struct receiving a JSON value: [e, bad]
SetStringField(e, field, v) ==
    IF v.t = "string" THEN [e |-> [e EXCEPT ![field] = TextOf(v.s)], bad |-> FALSE]
    ELSE IF v.t = "null" THEN [e |-> e, bad |-> FALSE]
    ELSE [e |-> e, bad |-> TRUE]

RECURSIVE DecodeErrorMembers(_, _, _, _, _)
\* one member m of the object stored into e: [e, bad]
DecodeErrorMember(b, m, e) ==
    CASE FoldName(m.key) = "message" -> SetStringField(e, "Message", m.val)
      [] FoldName(m.key) = "code" -> SetStringField(e, "Code", m.val)
      [] FoldName(m.key) = "raw" ->
           [e |-> [e EXCEPT !.Raw = SubSeq(b, m.val.from, m.val.to)], bad |-> FALSE]
      [] OTHER -> [e |-> e, bad |-> FALSE]

NextErrorMember(b, items, k, r, bad) ==
    DecodeErrorMembers(b, items, k + 1, r.e, bad \/ r.bad)

\* the members of an object decoded into *APIError one after the other; a member of
\* the wrong type is skipped and reported, the others are still stored: [e, bad]
DecodeErrorMembers(b, items, k, e, bad) ==
    IF k > Len(items) THEN [e |-> e, bad |-> bad]
    ELSE NextErrorMember(b, items, k, DecodeErrorMember(b, items[k], e), bad)

\* json.Unmarshal(body, apiErr): [e, bad]; StatusCode is tagged json:"-"
DecodeError(p, b, e) ==
    IF ~p.ok THEN [e |-> e, bad |-> TRUE]
    ELSE IF p.val.t = "null" THEN [e |-> e, bad |-> FALSE]
    ELSE IF p.val.t = "object" THEN DecodeErrorMembers(b, p.val.items, 1, e, FALSE)
    ELSE [e |-> e, bad |-> TRUE]

UnmarshalAPIError(b, e) == DecodeError(ParseJSON(b), b, e)

\* a faulty variant of AfterUnmarshal: the plain-text fallback does not trim
AfterUnmarshalNoTrim(u, bodyBytes) ==
    IF u.bad THEN [u.e EXCEPT !.Message = bodyBytes]
    ELSE [u.e EXCEPT !.Raw = bodyBytes]

\* after json.Unmarshal(bodyBytes, apiErr) gave u: the plain-text fallback, or Raw
AfterUnmarshal(u, bodyBytes) ==
    IF u.bad THEN [u.e EXCEPT !.Message = TrimSpace(bodyBytes)]
    ELSE [u.e EXCEPT !.Raw = bodyBytes]

\* the error built from a failure status and the body read: client.go do, and
\* parseAPIError
BuildAPIError(status, bodyBytes) ==
    IF Len(bodyBytes) > 0
    THEN AfterUnmarshal(UnmarshalAPIError(bodyBytes, APIError(status)), bodyBytes)
    ELSE APIError(status)

----------------------------------------------------------------------------
(* The response handler: client.go do.                                      *)

\* io.LimitReader ceilings, in bytes
jsonBodyLimit == 1048576
exportBodyLimit == 4194304

\* a run of jsonBodyLimit filler bytes, as one token
BigRun == "x*1048576"
\* the bytes of a token
ByteLen(t) == IF t = BigRun THEN jsonBodyLimit ELSE Len(t)

RECURSIVE FitCount(_, _, _)
\* how many tokens of body, from the k-th on, fit in n bytes (added to k - 1)
FitCount(body, n, k) ==
    IF k > Len(body) \/ ByteLen(body[k]) > n THEN k - 1
    ELSE FitCount(body, n - ByteLen(body[k]), k + 1)

\* a faulty variant of ReadLimited: the whole body is read
ReadUnlimited(body, n) == body

\* io.ReadAll(io.LimitReader(body, n)); the bodies explored have a token boundary
\* at each ceiling
ReadLimited(body, n) == SubSeq(body, 1, FitCount(body, n, 1))

NoValue == [t |-> "none", from |-> 0, to |-> 0]
NoData == [nil |-> TRUE, bytes |-> <<>>]
Returned(e, v, d) == [err |-> e, value |-> v, data |-> d]

\* json.Unmarshal(body, out) for a target of type out: [bad, value].  null leaves
\* the target as it is; every value of the body must fit the type of the place it
\* is stored in
DecodeInto(out, p) ==
    IF ~p.ok THEN [bad |-> TRUE, value |-> NoValue]
    ELSE IF p.val.t = "null" THEN [bad |-> FALSE, value |-> NoValue]
    ELSE IF FitsType(out, p.val) THEN [bad |-> FALSE, value |-> p.val]
    ELSE [bad |-> TRUE, value |-> NoValue]

UnmarshalInto(out, b) == DecodeInto(out, ParseJSON(b))

\* a faulty variant of Decoded: a decode failure is reported as an API error
DecodedAsAPIError(d) ==
    IF d.bad
    THEN [err |-> [APIError(0) EXCEPT !.Message = <<"decode response">>], value |-> NoValue]
    ELSE [err |-> NilErr, value |-> d.value]

\* the end of do, d being what json.Unmarshal(bodyBytes, out) gave
Decoded(d) ==
    IF d.bad
    THEN [err |-> WrapErr("decode response", LocalErr("json")), value |-> NoValue]
    ELSE [err |-> NilErr, value |-> d.value]

\* a faulty variant of HandleBody: every status outside 2xx is taken for a failure
HandleBodyNon2xx(status, bodyBytes, out) ==
    IF status < 200 \/ status >= 300
    THEN [err |-> BuildAPIError(status, bodyBytes), value |-> NoValue]
    ELSE IF out.k = "nil" \/ Len(bodyBytes) = 0
    THEN [err |-> NilErr, value |-> NoValue]
    ELSE Decoded(UnmarshalInto(out, bodyBytes))

\* do from the status check on, bodyBytes being what was read
HandleBody(status, bodyBytes, out) ==
    IF status >= 400
    THEN [err |-> BuildAPIError(status, bodyBytes), value |-> NoValue]
    ELSE IF out.k = "nil" \/ Len(bodyBytes) = 0
    THEN [err |-> NilErr, value |-> NoValue]
    ELSE Decoded(UnmarshalInto(out, bodyBytes))

RECURSIVE ByteCount(_)
\* the bytes of a body
ByteCount(body) == IF body = <<>> THEN 0 ELSE ByteLen(Head(body)) + ByteCount(Tail(body))

\* io.ReadAll(io.LimitReader(res.Body, n)) returns an error: the body fails before
\* it has given n bytes; the reader asks for nothing more once it has n
ReadFails(res, n) == res.readErr /\ ByteCount(res.body) < n

\* do(req, out) once the transport has answered with res; out is the type of the
\* target, TNil for none: [err, value]
do(res, out) ==
    IF res.kind = "error"
    THEN [err |-> WrapErr("request failed", res.err), value |-> NoValue]
    ELSE IF ReadFails(res, jsonBodyLimit)
    THEN [err |-> WrapErr("read response", LocalErr("read")), value |-> NoValue]
    ELSE HandleBody(res.status, ReadLimited(res.body, jsonBodyLimit), out)

\* parseAPIError(res): the read error is dropped, what was read is used
parseAPIError(res) == BuildAPIError(res.status, ReadLimited(res.body, jsonBodyLimit))

----------------------------------------------------------------------------
(* The request builder: client.go newRequest.                               *)

HeaderNames == {"Authorization", "Accept", "Content-Type", "User-Agent"}
\* http.Header: each name has a list of values
NoHeader == [h \in HeaderNames |-> <<>>]
\* Header.Set
HeaderSet(hd, name, value) == [hd EXCEPT ![name] = <<value>>]

NilQuery == [nil |-> TRUE, pairs |-> <<>>]
NoBody == [kind |-> "none"]

RECURSIVE EncodePairs(_, _)
\* url.Values.Encode for pairs given in key order
EncodePairs(pairs, k) ==
    IF k > Len(pairs) THEN <<>>
    ELSE (IF k > 1 THEN <<"&">> ELSE <<>>)
         \o QueryEscape(<<pairs[k][1]>>) \o <<"=">> \o QueryEscape(pairs[k][2])
         \o EncodePairs(pairs, k + 1)

NoRequest == [method |-> "", url |-> NilURL, header |-> NoHeader, body |-> NoBody]

\* c.newRequest(ctx, method, path, query, body): [err, req]
\* u.RawQuery = query.Encode() when a query is given
WithQuery(u, query) ==
    IF query.nil THEN u ELSE [u EXCEPT !.rawQuery = EncodePairs(query.pairs, 1)]

\* a faulty variant of SetUserAgent: the header is set even when the user agent is
\* empty
SetUserAgentAlways(hd, c) == HeaderSet(hd, "User-Agent", c.userAgent)

\* the four req.Header.Set of newRequest
SetUserAgent(hd, c) ==
    IF c.userAgent # <<>> THEN HeaderSet(hd, "User-Agent", c.userAgent) ELSE hd
SetContentType(hd, body) ==
    IF body # NoBody THEN HeaderSet(hd, "Content-Type", <<"application/json">>) ELSE hd

\* a faulty variant of RequestHeader: the credential is trimmed before it is put
\* in the header
RequestHeaderTrimmed(c, body) ==
    SetUserAgent(
        SetContentType(
            HeaderSet(HeaderSet(NoHeader, "Authorization",
                                <<"Bearer ">> \o TrimSpace(c.apiKey)),
                      "Accept", <<"application/json">>),
            body),
        c)

RequestHeader(c, body) ==
    SetUserAgent(
        SetContentType(
            HeaderSet(HeaderSet(NoHeader, "Authorization", <<"Bearer ">> \o c.apiKey),
                      "Accept", <<"application/json">>),
            body),
        c)

\* http.NewRequestWithContext(ctx, method, u.String(), body) and the headers set on
\* its request, parsed being url.Parse of the text
NewRequestWithContext(c, parsed, method, body) ==
    IF parsed.err
    THEN [err |-> WrapErr("create request", LocalErr("url.Parse")), req |-> NoRequest]
    ELSE [err |-> NilErr,
          req |-> [method |-> method,
                   url |-> [parsed.url EXCEPT !.host = removeEmptyPort(@)],
                   header |-> RequestHeader(c, body), body |-> body]]

\* newRequest once the path has been parsed into rel
BuildRequest(c, rel, method, query, body) ==
    IF rel.err
    THEN [err |-> WrapErr("parse path", LocalErr("url.Parse")), req |-> NoRequest]
    ELSE NewRequestWithContext(
             c, ParseURL(URLString(WithQuery(ResolveReference(c.baseURL, rel.url), query))),
             method, body)

newRequest(c, ctx, method, path, query, body) ==
    IF ctx = "nil"
    THEN [err |-> LocalErr("context must not be nil"), req |-> NoRequest]
    ELSE BuildRequest(c, ParseURL(path), method, query, body)

----------------------------------------------------------------------------
(* Validation helpers.                                                      *)

\* a faulty variant of requireID: no trimming, only the empty string is refused
requireIDNoTrim(value, label) ==
    IF value = <<>> THEN LocalErr(label \o " must not be empty") ELSE NilErr

requireID(value, label) ==
    IF TrimSpace(value) = <<>> THEN LocalErr(label \o " must not be empty") ELSE NilErr

requireZone(zone) ==
    IF TrimSpace(zone) = <<>> THEN LocalErr("zone must not be empty") ELSE NilErr

\* the check CreateDomain, CreateRecord, UpdateRecord and DeleteRecord write inline
requireField(value, label) ==
    IF TrimSpace(value) = <<>> THEN LocalErr(label \o " must not be empty") ELSE NilErr

\* a faulty variant of trimZone: the trailing dot is kept
trimZoneKeepDot(zone) == TrimSpace(zone)

trimZone(zone) == TrimSuffixDot(TrimSpace(zone))

clientAPIPrefix == <<"/", "api", "/", "client">>

zoneRecordsPath(zone) == <<"/", "zones", "/">> \o PathEscape(trimZone(zone)) \o <<"/", "records">>

zoneRecordPath(zone, recordID) == zoneRecordsPath(zone) \o <<"/">> \o PathEscape(recordID)

\* the first error of a list of checks
RECURSIVE FirstErr(_)
FirstErr(errs) ==
    IF errs = <<>> THEN NilErr
    ELSE IF Head(errs) # NilErr THEN Head(errs)
    ELSE FirstErr(Tail(errs))

Failed(e) == [err |-> e, req |-> NoRequest]

----------------------------------------------------------------------------
(* Request payloads.  A pointer field is [set, v]; a slice is [nil, items]. *)

NilInt == [set |-> FALSE, v |-> 0]
PtrInt(n) == [set |-> TRUE, v |-> n]
NilStr == [set |-> FALSE, v |-> <<>>]
PtrStr(x) == [set |-> TRUE, v |-> x]
NilList == [nil |-> TRUE, items |-> <<>>]
List(xs) == [nil |-> FALSE, items |-> xs]

JSONBody(members) == [kind |-> "json", members |-> members]
RawBody(bytes) == [kind |-> "raw", bytes |-> bytes]

\* a member written for a pointer tagged omitempty
OmitNil(key, p) == IF p.set THEN << <<key, p.v>> >> ELSE <<>>
\* a member written for a slice tagged omitempty
OmitEmptyList(key, l) == IF Len(l.items) > 0 THEN << <<key, l.items>> >> ELSE <<>>
\* a member written for an integer tagged omitempty
OmitZero(key, n) == IF n # 0 THEN << <<key, n>> >> ELSE <<>>

\* json encoding of the domain-scoped CreateRecordRequest
EncodeCreateRecordRequest(p) ==
    << <<"domain_id", p.DomainID>>, <<"name", p.Name>>, <<"type", p.Type>>,
       <<"value", p.Value>> >>
    \o OmitNil("ttl", p.TTL) \o OmitNil("priority", p.Priority)
    \o OmitEmptyList("country_codes", p.CountryCodes)

\* json encoding of the domain-scoped UpdateRecordRequest
EncodeUpdateRecordRequest(p) ==
    OmitNil("name", p.Name) \o OmitNil("type", p.Type) \o OmitNil("value", p.Value)
    \o OmitNil("ttl", p.TTL) \o OmitNil("priority", p.Priority)
    \o OmitEmptyList("country_codes", p.CountryCodes)

\* json encoding of the zone-scoped CreateRecordRequest
EncodeZoneCreateRecordRequest(p) ==
    << <<"name", p.Name>>, <<"type", p.Type>>, <<"content", p.Content>> >>
    \o OmitZero("ttl", p.TTL) \o OmitZero("priority", p.Priority)
    \o OmitZero("weight", p.Weight)

\* json encoding of the zone-scoped UpdateRecordRequest
EncodeZoneUpdateRecordRequest(p) ==
    OmitNil("name", p.Name) \o OmitNil("type", p.Type) \o OmitNil("content", p.Content)
    \o OmitNil("ttl", p.TTL) \o OmitNil("priority", p.Priority)
    \o OmitNil("weight", p.Weight)

----------------------------------------------------------------------------
(* The resource operations up to the hand-over to the transport: each       *)
(* yields [err, req], the local error or the request it sends.              *)

ListDomainsRequest(c, ctx) ==
    newRequest(c, ctx, "GET", clientAPIPrefix \o <<"/", "domains">>, NilQuery, NoBody)

CreateDomainRequest(c, ctx, name) ==
    LET n == TrimSpace(name)
    IN  IF n = <<>> THEN Failed(LocalErr("domain name must not be empty"))
        ELSE newRequest(c, ctx, "POST", clientAPIPrefix \o <<"/", "domains">>, NilQuery,
                        JSONBody(<< <<"name", n>> >>))

DeleteDomainRequest(c, ctx, domainID) ==
    LET e == requireID(domainID, "domain id")
        path == clientAPIPrefix \o <<"/", "domains", "/">> \o PathEscape(domainID)
    IN  IF e # NilErr THEN Failed(e)
        ELSE newRequest(c, ctx, "DELETE", path, NilQuery, NoBody)

CheckNameserverRequest(c, ctx, domainID) ==
    LET e == requireID(domainID, "domain id")
        path == clientAPIPrefix \o <<"/", "domains", "/">> \o PathEscape(domainID)
                \o <<"/", "check-nameserver">>
    IN  IF e # NilErr THEN Failed(e)
        ELSE newRequest(c, ctx, "POST", path, NilQuery, NoBody)

ListDomainRecordsRequest(c, ctx, domainID) ==
    LET e == requireID(domainID, "domain id")
        path == clientAPIPrefix \o <<"/", "domains", "/">> \o PathEscape(domainID)
                \o <<"/", "records">>
    IN  IF e # NilErr THEN Failed(e)
        ELSE newRequest(c, ctx, "GET", path, NilQuery, NoBody)

CreateRecordRequest(c, ctx, payload) ==
    LET e == FirstErr(<<requireID(payload.DomainID, "domain id"),
                        requireField(payload.Name, "record name"),
                        requireField(payload.Type, "record type"),
                        requireField(payload.Value, "record value")>>)
    IN  IF e # NilErr THEN Failed(e)
        ELSE newRequest(c, ctx, "POST", clientAPIPrefix \o <<"/", "records">>, NilQuery,
                        JSONBody(EncodeCreateRecordRequest(payload)))

UpdateRecordRequest(c, ctx, recordID, payload) ==
    LET e == requireID(recordID, "record id")
        path == clientAPIPrefix \o <<"/", "records", "/">> \o PathEscape(recordID)
    IN  IF e # NilErr THEN Failed(e)
        ELSE newRequest(c, ctx, "PUT", path, NilQuery,
                        JSONBody(EncodeUpdateRecordRequest(payload)))

DeleteRecordRequest(c, ctx, recordID) ==
    LET e == requireID(recordID, "record id")
        path == clientAPIPrefix \o <<"/", "records", "/">> \o PathEscape(recordID)
    IN  IF e # NilErr THEN Failed(e)
        ELSE newRequest(c, ctx, "DELETE", path, NilQuery, NoBody)

\* ExportBindZone up to c.httpClient.Do: Accept is replaced on the built request
\* req.Header.Set("Accept", "text/plain") on the request newRequest gave
SetAccept(r) ==
    IF r.err # NilErr THEN r
    ELSE [r EXCEPT !.req.header = HeaderSet(@, "Accept", <<"text/plain">>)]

ExportBindZoneRequest(c, ctx, domainID) ==
    LET e == requireID(domainID, "domain id")
        path == clientAPIPrefix \o <<"/", "domains", "/">> \o PathEscape(domainID)
                \o <<"/", "export", "/", "bind">>
    IN  IF e # NilErr THEN Failed(e)
        ELSE SetAccept(newRequest(c, ctx, "GET", path, NilQuery, NoBody))

\* ImportBindZone up to c.do: the body and Content-Type are set on the built request
\* req.Body and Content-Type set on the request newRequest gave
SetZoneBody(r, zoneData, contentType) ==
    IF r.err # NilErr THEN r
    ELSE [r EXCEPT !.req.body = RawBody(zoneData),
                   !.req.header = HeaderSet(@, "Content-Type", contentType)]

ImportBindZoneRequest(c, ctx, zoneData, contentType) ==
    IF Len(zoneData) = 0 THEN Failed(LocalErr("zone data must not be empty"))
    ELSE SetZoneBody(newRequest(c, ctx, "POST",
                                clientAPIPrefix \o <<"/", "import", "/", "bind">>,
                                NilQuery, NoBody),
                     zoneData,
                     IF contentType = <<>> THEN <<"text/plain">> ELSE contentType)

RotateAPIKeyRequest(c, ctx) ==
    newRequest(c, ctx, "POST", clientAPIPrefix \o <<"/", "rotate-api-key">>, NilQuery, NoBody)

\* strconv.Itoa for the page numbers the exploration uses
Itoa(n) == <<ToString(n)>>

\* a faulty variant of ListRecordsQuery: page is sent whenever options are given
ListRecordsQueryAlwaysPage(opts) ==
    IF opts.nil THEN [nil |-> FALSE, pairs |-> <<>>]
    ELSE [nil |-> FALSE, pairs |-> << <<"page", Itoa(opts.Page)>> >>]

\* the url.Values ListRecords fills, in the key order Encode writes them
ListRecordsQuery(opts) ==
    IF opts.nil THEN [nil |-> FALSE, pairs |-> <<>>]
    ELSE [nil |-> FALSE,
          pairs |-> (IF opts.Name # <<>> THEN << <<"name", opts.Name>> >> ELSE <<>>)
                    \o (IF opts.Page > 0 THEN << <<"page", Itoa(opts.Page)>> >> ELSE <<>>)
                    \o (IF opts.PerPage > 0 THEN << <<"per_page", Itoa(opts.PerPage)>> >> ELSE <<>>)
                    \o (IF opts.Type # <<>> THEN << <<"type", opts.Type>> >> ELSE <<>>)]

ZoneListRecordsRequest(c, ctx, zone, opts) ==
    LET e == requireZone(zone)
    IN  IF e # NilErr THEN Failed(e)
        ELSE newRequest(c, ctx, "GET", zoneRecordsPath(zone), ListRecordsQuery(opts), NoBody)

ZoneCreateRecordRequest(c, ctx, zone, payload) ==
    LET e == FirstErr(<<requireZone(zone),
                        requireField(payload.Name, "record name"),
                        requireField(payload.Type, "record type"),
                        requireField(payload.Content, "record content")>>)
    IN  IF e # NilErr THEN Failed(e)
        ELSE newRequest(c, ctx, "POST", zoneRecordsPath(zone), NilQuery,
                        JSONBody(EncodeZoneCreateRecordRequest(payload)))

ZoneUpdateRecordRequest(c, ctx, zone, recordID, payload) ==
    LET e == FirstErr(<<requireZone(zone), requireField(recordID, "record id")>>)
    IN  IF e # NilErr THEN Failed(e)
        ELSE newRequest(c, ctx, "PATCH", zoneRecordPath(zone, recordID), NilQuery,
                        JSONBody(EncodeZoneUpdateRecordRequest(payload)))

ZoneDeleteRecordRequest(c, ctx, zone, recordID) ==
    LET e == FirstErr(<<requireZone(zone), requireField(recordID, "record id")>>)
    IN  IF e # NilErr THEN Failed(e)
        ELSE newRequest(c, ctx, "DELETE", zoneRecordPath(zone, recordID), NilQuery, NoBody)

\* the types of the responses
DomainType ==
    TStruct(<<Field("id", TString), Field("client_id", TString), Field("name", TString),
              Field("active", TBool), Field("created_at", TTime),
              Field("updated_at", TTime), Field("nameserver_last_checked_at", TTime),
              Field("nameserver_verified_at", TTime),
              Field("nameserver_check_status", TString)>>)
NameserverCheckResponseType ==
    TStruct(<<Field("domain", DomainType),
              Field("check", TStruct(<<Field("valid", TBool), Field("status", TString)>>))>>)
RecordType ==
    TStruct(<<Field("id", TString), Field("domain_id", TString), Field("name", TString),
              Field("type", TString), Field("ttl", TInt),
              Field("country_codes", TSlice(TString)), Field("priority", TInt),
              Field("value", TString), Field("created_at", TTime),
              Field("updated_at", TTime)>>)
ClientProfileType ==
    TStruct(<<Field("id", TString), Field("name", TString), Field("email", TString),
              Field("api_token", TString), Field("domain_limit", TInt),
              Field("created_at", TTime), Field("updated_at", TTime)>>)
BindImportResponseType ==
    TStruct(<<Field("domain", DomainType), Field("records_created", TInt),
              Field("records", TSlice(RecordType)), Field("partial_success", TBool),
              Field("errors", TSlice(TString))>>)
ZoneRecordType ==
    TStruct(<<Field("id", TString), Field("zone", TString), Field("name", TString),
              Field("type", TString), Field("content", TString), Field("ttl", TInt),
              Field("priority", TUint), Field("weight", TUint),
              Field("created_at", TTime), Field("updated_at", TTime)>>)
\* the envelope ListRecords decodes into
RecordsEnvelopeType == TStruct(<<Field("records", TSlice(ZoneRecordType))>>)

\* the type of the target each operation passes to do
OutOf(op) ==
    CASE op \in {"DeleteDomain", "DeleteRecord", "ZoneDeleteRecord"} -> TNil
      [] op = "ListDomains" -> TSlice(DomainType)
      [] op = "CreateDomain" -> DomainType
      [] op = "CheckNameserver" -> NameserverCheckResponseType
      [] op = "ListDomainRecords" -> TSlice(RecordType)
      [] op \in {"CreateRecord", "UpdateRecord"} -> RecordType
      [] op = "ImportBindZone" -> BindImportResponseType
      [] op = "RotateAPIKey" -> ClientProfileType
      [] op = "ZoneListRecords" -> RecordsEnvelopeType
      [] op \in {"ZoneCreateRecord", "ZoneUpdateRecord"} -> ZoneRecordType

\* response.Records of the envelope ListRecords decodes into: what the last
\* "records" member of the body stored, an array its elements and null a nil slice
RecordsOf(v) ==
    IF v.t = "object" /\ \E k \in 1..Len(v.items) : FoldName(v.items[k].key) = "records"
    THEN LET k == CHOOSE k \in 1..Len(v.items) :
                      /\ FoldName(v.items[k].key) = "records"
                      /\ \A j \in (k + 1)..Len(v.items) :
                            FoldName(v.items[j].key) # "records"
         IN  IF v.items[k].val.t = "array" THEN v.items[k].val ELSE NoValue
    ELSE NoValue

\* what an operation that ends in c.do returns once the transport has answered
\* the return statements after c.do, d being what do gave
ReturnAfterDo(op, d) ==
    IF d.err # NilErr THEN Returned(d.err, NoValue, NoData)
    ELSE IF op = "ZoneListRecords" THEN Returned(NilErr, RecordsOf(d.value), NoData)
    ELSE Returned(NilErr, d.value, NoData)

Finish(op, res) == ReturnAfterDo(op, do(res, OutOf(op)))

\* a faulty variant of ExportBindZoneFinish: the transport error is formatted with
\* %v, so its text is kept but the error is not wrapped
ExportBindZoneFinishNoWrap(res) ==
    IF res.kind = "error"
    THEN Returned(LocalErr("request failed"), NoValue, NoData)
    ELSE IF res.status >= 400 THEN Returned(parseAPIError(res), NoValue, NoData)
    ELSE Returned(IF ReadFails(res, exportBodyLimit) THEN LocalErr("read") ELSE NilErr,
                  NoValue, [nil |-> FALSE, bytes |-> ReadLimited(res.body, exportBodyLimit)])

\* a faulty variant of ExportBindZoneFinish: the export is read under the ceiling
\* of the JSON responses
ExportBindZoneFinishJSONLimit(res) ==
    IF res.kind = "error"
    THEN Returned(WrapErr("request failed", res.err), NoValue, NoData)
    ELSE IF res.status >= 400 THEN Returned(parseAPIError(res), NoValue, NoData)
    ELSE Returned(IF ReadFails(res, jsonBodyLimit) THEN LocalErr("read") ELSE NilErr,
                  NoValue, [nil |-> FALSE, bytes |-> ReadLimited(res.body, jsonBodyLimit)])

\* what ExportBindZone returns once the transport has answered
ExportBindZoneFinish(res) ==
    IF res.kind = "error"
    THEN Returned(WrapErr("request failed", res.err), NoValue, NoData)
    ELSE IF res.status >= 400 THEN Returned(parseAPIError(res), NoValue, NoData)
    ELSE Returned(IF ReadFails(res, exportBodyLimit) THEN LocalErr("read") ELSE NilErr,
                  NoValue, [nil |-> FALSE, bytes |-> ReadLimited(res.body, exportBodyLimit)])

----------------------------------------------------------------------------
(* Inputs of the exploration.                                               *)

\* credentials: empty, blank, plain, and with surrounding white space
ApiKeys == {<<>>, <<" ">>, <<"\r", NBSP>>, <<"key">>, <<" ", "key", "\n">>}

customURL == <<"https", ":", "/", "/", "example.test", "/", "api">>

RawURLs == {<<>>, <<" ">>, <<NBSP>>, <<":", "/", "/", "bad">>, <<"/", "rel">>,
            <<"/", "/", "/", "rel">>, <<"1", ":", "x">>, <<"a_b", ":", "x">>,
            <<" ", "https", ":", "/", "/", "example.test">>,
            <<"https", ":", "/", "/", "example.test", "/", "\n">>,
            <<"https", ":", "/", "/", "example.test", ":", "bad", "/">>,
            <<"https", ":", "/", "/", "example.test", "%zz">>,
            <<"https", ":", "/", "/", "u", "@", "example.test">>,
            <<"HTTPS", ":", "/", "/", "example.test">>, customURL}

Options ==
    {OptNil}
    \cup {OptBaseURL(u) : u \in RawURLs}
    \cup {OptHTTPClient(h) : h \in {nilHTTPClient, <<"custom">>}}
    \cup {OptUserAgent(ua) : ua \in {<<>>, <<" ">>, <<"\r", "custom-agent", NEL>>}}

OptLists == SeqsUpTo(Options, MaxOpts)

----------------------------------------------------------------------------
(* SpecNew: construction.                                                   *)

NoCall == [op |-> "none"]
\* no caller but the one of call
NoCallers == <<>>
NoResp == [kind |-> "none"]
NoResult == [err |-> NilErr, value |-> NoValue, data |-> NoData]

InitNew ==
    /\ ctor = [apiKey |-> <<>>, opts |-> <<>>]
    /\ client = NilClient
    /\ ctorErr = NilErr
    /\ ran = <<>>
    /\ pc = "new"
    /\ call = NoCall
    /\ req = <<>>
    /\ resp = NoResp
    /\ result = NoResult
    /\ read = <<>>
    /\ callers = NoCallers
    /\ issued = <<>>

\* NewClient(apiKey, opts) returns r
Construct(apiKey, opts, r) ==
    /\ ctor' = [apiKey |-> apiKey, opts |-> opts]
    /\ client' = r.client
    /\ ctorErr' = r.err
    /\ ran' = r.ran

DoNewClient ==
    /\ pc = "new"
    /\ \E apiKey \in ApiKeys, opts \in OptLists :
         Construct(apiKey, opts, NewClient(apiKey, opts))
    /\ pc' = "idle"
    /\ UNCHANGED <<call, req, resp, result, read, callers, issued>>

NextNew == DoNewClient

SpecNew == InitNew /\ [][NextNew]_vars

----------------------------------------------------------------------------
(* Spec: the resource operations on a constructed client.                   *)

\* the constructions the operations are explored on: the defaults; a credential
\* with surrounding white space, a base URL with a path and no user agent; a custom
\* transport
InitCtors ==
    {[apiKey |-> <<"key">>, opts |-> <<>>],
     [apiKey |-> <<" ", "key", "\n">>,
      opts |-> <<OptBaseURL(customURL), OptUserAgent(<<" ">>)>>],
     [apiKey |-> <<"key">>, opts |-> <<OptHTTPClient(<<"custom">>), OptUserAgent(<<" ", "ua", "\n">>)>>]}

Ctxs == {"nil", "background"}

IdChars == {"a", "."}
\* identifiers, zone names and domain names: every string over IdChars, some with
\* white space, and some with the characters that PathEscape rewrites
IDs == SeqsUpTo(IdChars, MaxLen)
       \cup {<<" ">>, <<" ", "a">>, <<"a", " ">>, <<".", " ">>}
       \cup {<<"a", ".", ".">>}
       \cup {<<"a", "/", "b">>, <<"?">>, <<"%">>}
       \cup {<<"\r", NBSP>>, <<"a", ";", ",">>}
\* record identifiers of the zone-scoped operations
RecIDs == {<<>>, <<" ">>, <<"a">>, <<".", ".">>}
\* required string fields of the create payloads
Fields == {<<>>, <<" ">>, <<"a">>}

CreatePayloads ==
    {[DomainID |-> d, Name |-> n, Type |-> t, Value |-> v, TTL |-> NilInt,
      Priority |-> NilInt, CountryCodes |-> NilList] :
        d \in Fields, n \in Fields, t \in Fields, v \in Fields}
    \cup {[DomainID |-> <<"a">>, Name |-> <<"a">>, Type |-> <<"a">>, Value |-> <<"a">>,
           TTL |-> PtrInt(0), Priority |-> PtrInt(10), CountryCodes |-> List(<<>>)]}

\* each optional field is unset in one payload and set in the other, to an empty
\* value or to a non-empty one
UpdatePayloads ==
    {[Name |-> NilStr, Type |-> PtrStr(<<"A">>), Value |-> PtrStr(<<"b">>), TTL |-> NilInt,
      Priority |-> PtrInt(0), CountryCodes |-> NilList],
     [Name |-> PtrStr(<<>>), Type |-> NilStr, Value |-> NilStr,
      TTL |-> PtrInt(0), Priority |-> NilInt, CountryCodes |-> List(<<>>)]}

ZoneCreatePayloads ==
    {[Name |-> n, Type |-> t, Content |-> v, TTL |-> 0, Priority |-> 0, Weight |-> 0] :
        n \in Fields, t \in Fields, v \in Fields}
    \cup {[Name |-> <<"a">>, Type |-> <<"a">>, Content |-> <<"a">>, TTL |-> 300,
           Priority |-> 10, Weight |-> 0]}

ZoneUpdatePayloads ==
    {[Name |-> NilStr, Type |-> PtrStr(<<"A">>), Content |-> PtrStr(<<"b">>), TTL |-> NilInt,
      Priority |-> PtrInt(0), Weight |-> NilInt],
     [Name |-> PtrStr(<<>>), Type |-> NilStr, Content |-> NilStr,
      TTL |-> PtrInt(0), Priority |-> NilInt, Weight |-> PtrInt(0)]}

ListOptions ==
    {[nil |-> TRUE, Name |-> <<>>, Type |-> <<>>, Page |-> 0, PerPage |-> 0],
     [nil |-> FALSE, Name |-> <<>>, Type |-> <<>>, Page |-> 0, PerPage |-> 0],
     [nil |-> FALSE, Name |-> <<"a", "&", " ">>, Type |-> <<"A">>, Page |-> 2, PerPage |-> 0],
     [nil |-> FALSE, Name |-> <<>>, Type |-> <<>>, Page |-> -1, PerPage |-> 50]}

ZoneDatas == {<<>>, <<"$ORIGIN", " ", "example.com.", "\n">>}
ContentTypes == {<<>>, <<"text/dns">>}

\* what the transport may answer
TransportErr(m) == [kind |-> "transport", msg |-> m]
TransportErrs == {TransportErr("connection refused"), TransportErr("context canceled")}

Statuses == {101, 200, 304, 400}
\* the statuses at which every body is answered, and the bodies of the others
FullStatuses == {200, 400}
FewBodies == {<<>>, <<" ", "oops", "\n">>, <<"{", "}">>}

\* the bodies answered with every status of FullStatuses
Bodies ==
    {<<>>,
     <<" ">>,
     <<" ", "oops", "\n">>,
     <<"{", Quote("message"), ":", Quote("oops"), ",", Quote("code"), ":",
       Quote("bad_request"), "}", "\n">>,
     <<"{", Quote("message"), ":", Quote("oops"), ",", Quote("code"), ":", "400", "}">>,
     <<"{", Quote("raw"), ":", Quote("x"), ",", Quote("code"), ":", "1", "}">>,
     <<"{", "}">>,
     <<"[", "]">>,
     <<"null">>,
     <<"{", Quote("Message"), ":", Quote("oops"), ",", Quote("ttl"), ":", "1.5", ",",
       Quote("created_at"), ":", Quote("x"), "}", "\r", "\n">>}

\* the bodies answered with the status 200 only: what the operations decode
DataBodies ==
    {<<"{", Quote("records"), ":", "[", "{", Quote("id"), ":", Quote("x"), "}", "]", "}">>,
     <<"{", Quote("records"), ":", "[", "{", Quote("id"), ":", Quote("x"), "}", ",",
       "{", Quote("id"), ":", Quote("new"), "}", "]", "}">>,
     <<"{", Quote("records"), ":", "[", "{", "}", "]", ",", Quote("records"), ":",
       Quote("x"), "}">>,
     <<"{", Quote("records"), ":", "[", "{", "}", "]", ",", Quote("records"), ":",
       "[", "]", "}">>,
     <<"{", Quote("api_token"), ":", Quote("new"), "}">>,
     <<"{", Quote("records"), ":", "[", "{", Quote("id"), ":", "1", "}", "]", "}">>,
     <<"\r", "[", "{", Quote("id"), ":", Quote("x"), ",", Quote("created_at"), ":",
       Quote("2024-01-02T03:04:05Z"), ",", Quote("ttl"), ":", "-1", "}", "]">>}

\* bodies longer than the ceilings, by one byte
OverJSONLimit == <<BigRun, "y">>
OverExportLimit == <<BigRun, BigRun, BigRun, BigRun, "y">>

\* the part of a body that arrived before the connection broke; a body that
\* breaks may also be as long as a ceiling, or longer
PartialBody == <<"{", Quote("message")>>

Outcomes ==
    {[kind |-> "error", err |-> e, status |-> 0, body |-> <<>>, readErr |-> FALSE] :
        e \in TransportErrs}
    \cup {[kind |-> "response", err |-> NilErr, status |-> st, body |-> b, readErr |-> FALSE] :
            st \in FullStatuses, b \in Bodies \cup {OverJSONLimit, OverExportLimit}}
    \cup {[kind |-> "response", err |-> NilErr, status |-> 200, body |-> b, readErr |-> FALSE] :
            b \in DataBodies}
    \cup {[kind |-> "response", err |-> NilErr, status |-> st, body |-> b, readErr |-> FALSE] :
            st \in Statuses \ FullStatuses, b \in FewBodies}
    \cup {[kind |-> "response", err |-> NilErr, status |-> st, body |-> b, readErr |-> TRUE] :
            st \in FullStatuses,
            b \in {PartialBody, <<BigRun>>, OverJSONLimit, OverExportLimit}}

\* NewClient(a.apiKey, a.opts) returned r, a client
Constructed(a, r) ==
    /\ r.err = NilErr
    /\ ctor = a
    /\ client = r.client
    /\ ctorErr = r.err
    /\ ran = r.ran

Init ==
    /\ \E a \in InitCtors : Constructed(a, NewClient(a.apiKey, a.opts))
    /\ pc = "idle"
    /\ call = NoCall
    /\ req = <<>>
    /\ resp = NoResp
    /\ result = NoResult
    /\ read = <<>>
    /\ callers = NoCallers
    /\ issued = <<>>

\* a call c whose steps up to the transport gave r: it has returned its local
\* error, or its request is with the transport
Start(c, r) ==
    /\ pc = "idle"
    /\ call' = c
    /\ resp' = NoResp
    /\ read' = <<>>
    /\ IF r.err # NilErr
       THEN /\ req' = <<>>
            /\ result' = Returned(r.err, NoValue, NoData)
            /\ pc' = "done"
       ELSE /\ req' = <<r.req>>
            /\ result' = NoResult
            /\ pc' = "sent"
    /\ UNCHANGED <<ctor, client, ctorErr, ran, callers, issued>>

ListDomains ==
    \E ctx \in Ctxs :
        Start([op |-> "ListDomains", ctx |-> ctx], ListDomainsRequest(client, ctx))

CreateDomain ==
    \E ctx \in Ctxs, name \in IDs :
        Start([op |-> "CreateDomain", ctx |-> ctx, name |-> name],
              CreateDomainRequest(client, ctx, name))

DeleteDomain ==
    \E ctx \in Ctxs, id \in IDs :
        Start([op |-> "DeleteDomain", ctx |-> ctx, id |-> id],
              DeleteDomainRequest(client, ctx, id))

CheckNameserver ==
    \E ctx \in Ctxs, id \in IDs :
        Start([op |-> "CheckNameserver", ctx |-> ctx, id |-> id],
              CheckNameserverRequest(client, ctx, id))

ListDomainRecords ==
    \E ctx \in Ctxs, id \in IDs :
        Start([op |-> "ListDomainRecords", ctx |-> ctx, id |-> id],
              ListDomainRecordsRequest(client, ctx, id))

CreateRecord ==
    \E ctx \in Ctxs, payload \in CreatePayloads :
        Start([op |-> "CreateRecord", ctx |-> ctx, payload |-> payload],
              CreateRecordRequest(client, ctx, payload))

UpdateRecord ==
    \E ctx \in Ctxs, id \in IDs, payload \in UpdatePayloads :
        Start([op |-> "UpdateRecord", ctx |-> ctx, id |-> id, payload |-> payload],
              UpdateRecordRequest(client, ctx, id, payload))

DeleteRecord ==
    \E ctx \in Ctxs, id \in IDs :
        Start([op |-> "DeleteRecord", ctx |-> ctx, id |-> id],
              DeleteRecordRequest(client, ctx, id))

ExportBindZone ==
    \E ctx \in Ctxs, id \in IDs :
        Start([op |-> "ExportBindZone", ctx |-> ctx, id |-> id],
              ExportBindZoneRequest(client, ctx, id))

ImportBindZone ==
    \E ctx \in Ctxs, zoneData \in ZoneDatas, contentType \in ContentTypes :
        Start([op |-> "ImportBindZone", ctx |-> ctx, zoneData |-> zoneData,
               contentType |-> contentType],
              ImportBindZoneRequest(client, ctx, zoneData, contentType))

RotateAPIKey ==
    \E ctx \in Ctxs :
        Start([op |-> "RotateAPIKey", ctx |-> ctx], RotateAPIKeyRequest(client, ctx))

ZoneListRecords ==
    \E ctx \in Ctxs, zone \in IDs, opts \in ListOptions :
        Start([op |-> "ZoneListRecords", ctx |-> ctx, zone |-> zone, opts |-> opts],
              ZoneListRecordsRequest(client, ctx, zone, opts))

ZoneCreateRecord ==
    \E ctx \in Ctxs, zone \in IDs, payload \in ZoneCreatePayloads :
        Start([op |-> "ZoneCreateRecord", ctx |-> ctx, zone |-> zone, payload |-> payload],
              ZoneCreateRecordRequest(client, ctx, zone, payload))

ZoneUpdateRecord ==
    \E ctx \in Ctxs, zone \in IDs, id \in RecIDs, payload \in ZoneUpdatePayloads :
        Start([op |-> "ZoneUpdateRecord", ctx |-> ctx, zone |-> zone, id |-> id,
               payload |-> payload],
              ZoneUpdateRecordRequest(client, ctx, zone, id, payload))

ZoneDeleteRecord ==
    \E ctx \in Ctxs, zone \in IDs, id \in RecIDs :
        Start([op |-> "ZoneDeleteRecord", ctx |-> ctx, zone |-> zone, id |-> id],
              ZoneDeleteRecordRequest(client, ctx, zone, id))

\* profile.APIToken of the profile decoded from v
APITokenOf(v) ==
    IF v.t = "object" /\ \E k \in 1..Len(v.items) :
                            FoldName(v.items[k].key) = "api_token" /\ v.items[k].val.t = "string"
    THEN LET k == CHOOSE k \in 1..Len(v.items) :
                      /\ FoldName(v.items[k].key) = "api_token" /\ v.items[k].val.t = "string"
                      /\ \A j \in (k + 1)..Len(v.items) :
                             ~(FoldName(v.items[j].key) = "api_token" /\ v.items[j].val.t = "string")
         IN  TextOf(v.items[k].val.s)
    ELSE <<>>

\* the token of the last profile returned, once an operation has returned r:
\* RotateAPIKey returns a profile whenever c.do returns no error, and APIToken is
\* empty when the body gave it no string
IssuedAfter(tok, op, r) ==
    IF op = "RotateAPIKey" /\ r.err = NilErr THEN APITokenOf(r.value) ELSE tok

\* a faulty variant of ClientAfter: RotateAPIKey stores the token it was given as
\* the client's credential
ClientAfterRotateStores(c, op, r) == [c EXCEPT !.apiKey = IssuedAfter(@, op, r)]

\* a faulty variant of ClientAfter: the transport handle is dropped after a
\* transport failure
ClientAfterDropsTransport(c, op, r) ==
    IF r.err.kind = "wrapped" /\ r.err.msg = "request failed"
    THEN [c EXCEPT !.httpClient = nilHTTPClient]
    ELSE c

\* the client once an operation has returned r: no operation assigns a field of
\* the client, RotateAPIKey returns the profile and stores nothing
ClientAfter(c, op, r) == c

\* the bytes an operation reads from the body of the transport's answer: do and
\* parseAPIError read up to jsonBodyLimit, a successful export up to exportBodyLimit
BodyRead(op, res) ==
    IF res.kind = "error" THEN <<>>
    ELSE IF op = "ExportBindZone" /\ res.status < 400
    THEN ReadLimited(res.body, exportBodyLimit)
    ELSE ReadLimited(res.body, jsonBodyLimit)

\* a faulty variant of SentAfter: a request that failed in the transport is sent a
\* second time
SentAfterRetry(reqs, res) == IF res.kind = "error" THEN reqs \o reqs ELSE reqs

\* the requests a call has handed to the transport once the transport has answered
\* res: httpClient.Do is called once, and every path after it returns
SentAfter(reqs, res) == reqs

\* what c.httpClient.Do may return: an error, or a response of which the status
\* and the headers have arrived and no byte of the body yet
Answers ==
    {res \in Outcomes : res.kind = "error"}
    \cup {[kind |-> "response", err |-> NilErr, status |-> st, body |-> <<>>,
           readErr |-> FALSE] : st \in Statuses}

\* c.httpClient.Do has returned res: on an error the operation returns r, on a
\* response it goes on to read the body
Answer(res, r) ==
    /\ resp' = res
    /\ req' = SentAfter(req, res)
    /\ pc' = IF res.kind = "error" THEN "done" ELSE "answered"
    /\ result' = IF res.kind = "error" THEN r ELSE result
    /\ client' = IF res.kind = "error" THEN ClientAfter(client, call.op, r) ELSE client
    /\ UNCHANGED <<read, issued>>

\* io.ReadAll has returned, res being the answer with the body as it arrived: the
\* operation returns r
BodyArrived(res, r) ==
    /\ res.kind = "response"
    /\ res.status = resp.status
    /\ resp' = res
    /\ read' = BodyRead(call.op, res)
    /\ result' = r
    /\ client' = ClientAfter(client, call.op, r)
    /\ issued' = IssuedAfter(issued, call.op, r)
    /\ pc' = "done"

\* c.httpClient.Do returns in c.do
RoundTrip ==
    /\ pc = "sent"
    /\ call.op # "ExportBindZone"
    /\ \E res \in Answers : Answer(res, Finish(call.op, res))
    /\ UNCHANGED <<ctor, ctorErr, ran, call, callers>>

\* c.do reads the body of the answer and the operation returns
ReadBody ==
    /\ pc = "answered"
    /\ call.op # "ExportBindZone"
    /\ \E res \in Outcomes : BodyArrived(res, Finish(call.op, res))
    /\ UNCHANGED <<ctor, ctorErr, ran, call, callers, req>>

\* ExportBindZone's own c.httpClient.Do returns
ExportRoundTrip ==
    /\ pc = "sent"
    /\ call.op = "ExportBindZone"
    /\ \E res \in Answers : Answer(res, ExportBindZoneFinish(res))
    /\ UNCHANGED <<ctor, ctorErr, ran, call, callers>>

\* ExportBindZone, or parseAPIError for it, reads the body of the answer, and
\* ExportBindZone returns
ExportReadBody ==
    /\ pc = "answered"
    /\ call.op = "ExportBindZone"
    /\ \E res \in Outcomes : BodyArrived(res, ExportBindZoneFinish(res))
    /\ UNCHANGED <<ctor, ctorErr, ran, call, callers, req>>

\* the caller is done with the result; the client can be called again
Return ==
    /\ pc = "done"
    /\ pc' = "idle"
    /\ call' = NoCall
    /\ req' = <<>>
    /\ resp' = NoResp
    /\ result' = NoResult
    /\ read' = <<>>
    /\ UNCHANGED <<ctor, client, ctorErr, ran, callers, issued>>

Next ==
    \/ ListDomains
    \/ CreateDomain
    \/ DeleteDomain
    \/ CheckNameserver
    \/ ListDomainRecords
    \/ CreateRecord
    \/ UpdateRecord
    \/ DeleteRecord
    \/ ExportBindZone
    \/ ImportBindZone
    \/ RotateAPIKey
    \/ ZoneListRecords
    \/ ZoneCreateRecord
    \/ ZoneUpdateRecord
    \/ ZoneDeleteRecord
    \/ RoundTrip
    \/ ReadBody
    \/ ExportRoundTrip
    \/ ExportReadBody
    \/ Return

Spec == Init /\ [][Next]_vars

----------------------------------------------------------------------------
(* SpecConc: several callers share one client.  A caller enters an          *)
(* operation, builds its request from the client as it is at that moment,   *)
(* gets the transport's answer, reads its body and returns; the callers'    *)
(* steps interleave.                                                        *)

\* the request an operation builds, or the local error it returns: [err, req]
RequestOf(c, k) ==
    CASE k.op = "ListDomains" -> ListDomainsRequest(c, k.ctx)
      [] k.op = "CreateDomain" -> CreateDomainRequest(c, k.ctx, k.name)
      [] k.op = "DeleteDomain" -> DeleteDomainRequest(c, k.ctx, k.id)
      [] k.op = "CheckNameserver" -> CheckNameserverRequest(c, k.ctx, k.id)
      [] k.op = "ListDomainRecords" -> ListDomainRecordsRequest(c, k.ctx, k.id)
      [] k.op = "CreateRecord" -> CreateRecordRequest(c, k.ctx, k.payload)
      [] k.op = "UpdateRecord" -> UpdateRecordRequest(c, k.ctx, k.id, k.payload)
      [] k.op = "DeleteRecord" -> DeleteRecordRequest(c, k.ctx, k.id)
      [] k.op = "ExportBindZone" -> ExportBindZoneRequest(c, k.ctx, k.id)
      [] k.op = "ImportBindZone" ->
           ImportBindZoneRequest(c, k.ctx, k.zoneData, k.contentType)
      [] k.op = "RotateAPIKey" -> RotateAPIKeyRequest(c, k.ctx)
      [] k.op = "ZoneListRecords" -> ZoneListRecordsRequest(c, k.ctx, k.zone, k.opts)
      [] k.op = "ZoneCreateRecord" -> ZoneCreateRecordRequest(c, k.ctx, k.zone, k.payload)
      [] k.op = "ZoneUpdateRecord" ->
           ZoneUpdateRecordRequest(c, k.ctx, k.zone, k.id, k.payload)
      [] k.op = "ZoneDeleteRecord" -> ZoneDeleteRecordRequest(c, k.ctx, k.zone, k.id)

\* what an operation returns once the transport has answered
FinishOf(op, res) ==
    IF op = "ExportBindZone" THEN ExportBindZoneFinish(res) ELSE Finish(op, res)

MaxCallers == 2
Callers == 1..MaxCallers

\* the calls the callers make
ConcCalls ==
    {[op |-> "DeleteDomain", ctx |-> "background", id |-> <<" ">>],
     [op |-> "ExportBindZone", ctx |-> "background", id |-> <<"a">>],
     [op |-> "RotateAPIKey", ctx |-> "background"],
     [op |-> "ZoneListRecords", ctx |-> "background", zone |-> <<"a", ".">>,
      opts |-> [nil |-> FALSE, Name |-> <<"a", " ">>, Type |-> <<"A">>, Page |-> 2,
                PerPage |-> 0]]}

\* the answers the transport gives them
ConcOutcomes ==
    {[kind |-> "error", err |-> TransportErr("connection refused"), status |-> 0,
      body |-> <<>>, readErr |-> FALSE],
     [kind |-> "response", err |-> NilErr, status |-> 200,
      body |-> <<"{", Quote("api_token"), ":", Quote("new"), "}">>, readErr |-> FALSE],
     [kind |-> "response", err |-> NilErr, status |-> 200,
      body |-> <<"{", "}">>, readErr |-> FALSE],
     [kind |-> "response", err |-> NilErr, status |-> 400,
      body |-> <<" ", "oops", "\n">>, readErr |-> FALSE]}

\* what c.httpClient.Do returns to them: an error, or a response without its body
ConcAnswers ==
    {res \in ConcOutcomes : res.kind = "error"}
    \cup {[res EXCEPT !.body = <<>>] : res \in {o \in ConcOutcomes : o.kind = "response"}}

\* a caller that is in no operation
Idle == [pc |-> "idle", call |-> NoCall, req |-> <<>>, resp |-> NoResp,
         result |-> NoResult]

InitConc ==
    /\ \E a \in InitCtors : Constructed(a, NewClient(a.apiKey, a.opts))
    /\ pc = "idle"
    /\ call = NoCall
    /\ req = <<>>
    /\ resp = NoResp
    /\ result = NoResult
    /\ read = <<>>
    /\ issued = <<>>
    /\ callers = [p \in Callers |-> Idle]

\* caller p enters an operation
ConcCall ==
    \E p \in Callers, k \in ConcCalls :
        /\ callers[p].pc = "idle"
        /\ callers' = [callers EXCEPT ![p] = [Idle EXCEPT !.pc = "called", !.call = k]]
        /\ UNCHANGED <<ctor, client, ctorErr, ran, pc, call, req, resp, result, read,
                       issued>>

\* the caller s once its validation and newRequest have given r
Built(s, r) ==
    IF r.err # NilErr
    THEN [s EXCEPT !.pc = "done", !.result = Returned(r.err, NoValue, NoData)]
    ELSE [s EXCEPT !.pc = "sent", !.req = <<r.req>>]

\* caller p validates its arguments and builds its request from the client
ConcBuild ==
    \E p \in Callers :
        /\ callers[p].pc = "called"
        /\ callers' = [callers EXCEPT
                          ![p] = Built(callers[p], RequestOf(client, callers[p].call))]
        /\ UNCHANGED <<ctor, client, ctorErr, ran, pc, call, req, resp, result, read,
                       issued>>

\* c.httpClient.Do has returned res to the caller s: on an error its operation
\* returns r, on a response it goes on to read the body
ConcAnswered(s, res, r) ==
    IF res.kind = "error"
    THEN [s EXCEPT !.pc = "done", !.resp = res, !.result = r]
    ELSE [s EXCEPT !.pc = "answered", !.resp = res]

\* c.httpClient.Do returns to caller p
ConcAnswer ==
    \E p \in Callers, res \in ConcAnswers :
        /\ callers[p].pc = "sent"
        /\ callers' = [callers EXCEPT
                          ![p] = ConcAnswered(@, res, FinishOf(callers[p].call.op, res))]
        /\ client' = IF res.kind = "error"
                     THEN ClientAfter(client, callers[p].call.op,
                                      callers'[p].result)
                     ELSE client
        /\ UNCHANGED <<ctor, ctorErr, ran, pc, call, req, resp, result, read, issued>>

\* the operation of the caller s has read the body of its answer and returns r
ConcReturned(s, res, r) == [s EXCEPT !.pc = "done", !.resp = res, !.result = r]

\* caller p reads the body of its answer, and its operation returns
ConcReadBody ==
    \E p \in Callers, res \in ConcOutcomes :
        /\ callers[p].pc = "answered"
        /\ res.kind = "response"
        /\ res.status = callers[p].resp.status
        /\ callers' = [callers EXCEPT
                          ![p] = ConcReturned(@, res, FinishOf(callers[p].call.op, res))]
        /\ client' = ClientAfter(client, callers[p].call.op, callers'[p].result)
        /\ issued' = IssuedAfter(issued, callers[p].call.op, callers'[p].result)
        /\ UNCHANGED <<ctor, ctorErr, ran, pc, call, req, resp, result, read>>

\* caller p is done with the result
ConcReturn ==
    \E p \in Callers :
        /\ callers[p].pc = "done"
        /\ callers' = [callers EXCEPT ![p] = Idle]
        /\ UNCHANGED <<ctor, client, ctorErr, ran, pc, call, req, resp, result, read,
                       issued>>

NextConc ==
    \/ ConcCall
    \/ ConcBuild
    \/ ConcAnswer
    \/ ConcReadBody
    \/ ConcReturn

SpecConc == InitConc /\ [][NextConc]_vars

----------------------------------------------------------------------------
(* Properties of construction, checked under SpecNew.                       *)

\* empty or white space only
Blank(s) == \A k \in 1..Len(Flatten(s)) : IsSpace(Flatten(s)[k])

NotAbsolute(parsed) == parsed.err \/ ~IsAbs(parsed.url)

\* the options the contract says reject
Rejects(o) ==
    \/ o.opt = "WithBaseURL" /\ (Blank(o.arg) \/ NotAbsolute(ParseURL(o.arg)))
    \/ o.opt = "WithHTTPClient" /\ o.arg = nilHTTPClient

AnyRejects(opts) == \E i \in 1..Len(opts) : Rejects(opts[i])

\* the index of the first option that rejects, 0 when none does
FirstRejecting(opts) ==
    IF AnyRejects(opts)
    THEN CHOOSE i \in 1..Len(opts) :
             Rejects(opts[i]) /\ \A j \in 1..(i - 1) : ~Rejects(opts[j])
    ELSE 0

\* the indices of the options that are to run when the first rejecting one is f
RunUpTo(opts, f) ==
    SelectSeq([i \in 1..Len(opts) |-> i],
              LAMBDA i : opts[i] # OptNil /\ (f = 0 \/ i <= f))

Sets(opts, name) == \E i \in 1..Len(opts) : opts[i].opt = name

\* the argument of the last option called name
LastArg(opts, name) ==
    opts[CHOOSE i \in 1..Len(opts) :
             opts[i].opt = name /\ \A j \in (i + 1)..Len(opts) : opts[j].opt # name].arg

\* the client on which every option of opts has been applied, the later winning
AllApplied(c, apiKey, opts) ==
    /\ ~c.nil
    /\ c.apiKey = apiKey
    /\ c.baseURL = ParseURL(IF Sets(opts, "WithBaseURL") THEN LastArg(opts, "WithBaseURL")
                            ELSE defaultBaseURL).url
    /\ c.httpClient = (IF Sets(opts, "WithHTTPClient") THEN LastArg(opts, "WithHTTPClient")
                       ELSE defaultHTTPClient)
    /\ c.userAgent = (IF Sets(opts, "WithUserAgent")
                      THEN TrimSpace(LastArg(opts, "WithUserAgent"))
                      ELSE defaultUserAgent)

\* C2: NewClient returns an error exactly when the credential is blank or one of
\* the options rejects (WithBaseURL with an empty, unparsable or non-absolute URL,
\* WithHTTPClient with nil); otherwise, nil options included, it returns a client
\* and no error.
C2_ErrorIffBlankOrRejected ==
    pc # "new" =>
        /\ (ctorErr # NilErr) <=> (Blank(ctor.apiKey) \/ AnyRejects(ctor.opts))
        /\ (ctorErr = NilErr) <=> ~client.nil

\* a nil option was skipped and the nil transport after it was refused
C2_Witness ==
    /\ pc = "idle"
    /\ ctor.apiKey = <<"key">>
    /\ ctor.opts = <<OptNil, OptHTTPClient(nilHTTPClient)>>
    /\ ctorErr # NilErr
    /\ client.nil

C3Failed(f) ==
    /\ client = NilClient
    /\ ctorErr = ApplyOption(ctor.opts[f], NilClient).err

C3Outcome(f) ==
    /\ ran = RunUpTo(ctor.opts, f)
    /\ IF f # 0 THEN C3Failed(f)
       ELSE ctorErr = NilErr /\ AllApplied(client, ctor.apiKey, ctor.opts)

\* C3: NewClient runs its options in the order given and the later of two options
\* on one field wins; it stops at the first option that fails, returns that
\* option's error and a nil client and runs no option after it, so no client with
\* only some of the options applied is returned.
C3_InOrderStopAtFirstFailure ==
    (pc # "new" /\ ~Blank(ctor.apiKey)) => C3Outcome(FirstRejecting(ctor.opts))

\* the first option failed and the second, which would have been accepted, never ran
C3_Witness ==
    /\ pc = "idle"
    /\ Len(ctor.opts) = 2
    /\ Rejects(ctor.opts[1])
    /\ ctor.opts[2].opt = "WithUserAgent"
    /\ ran = <<1>>
    /\ ctorErr # NilErr
    /\ client = NilClient

----------------------------------------------------------------------------
(* Properties of the operations, checked under Spec.                        *)

\* the required identifiers and required string fields of a call
RequiredOf(c) ==
    CASE c.op \in {"DeleteDomain", "CheckNameserver", "ListDomainRecords",
                   "ExportBindZone", "UpdateRecord", "DeleteRecord"} -> {c.id}
      [] c.op = "CreateDomain" -> {c.name}
      [] c.op = "CreateRecord" ->
           {c.payload.DomainID, c.payload.Name, c.payload.Type, c.payload.Value}
      [] c.op = "ZoneListRecords" -> {c.zone}
      [] c.op = "ZoneCreateRecord" ->
           {c.zone, c.payload.Name, c.payload.Type, c.payload.Content}
      [] c.op \in {"ZoneUpdateRecord", "ZoneDeleteRecord"} -> {c.zone, c.id}
      [] OTHER -> {}

HasBlank(c) == \E s \in RequiredOf(c) : Blank(s)

\* errors.As(err, &apiErr): err or the error it wraps is an *APIError
IsAPIError(e) == e.kind = "api" \/ (e.kind = "wrapped" /\ e.wraps.kind = "api")

\* C1: an operation called with a required identifier or required string field
\* that is empty or white space only returns a local error, and no request is
\* handed to the transport.
C1_BlankFailsLocally ==
    HasBlank(call) =>
        /\ pc = "done"
        /\ req = <<>>
        /\ resp = NoResp
        /\ result.err.kind = "local"
        /\ result.value = NoValue
        /\ result.data = NoData

\* a zone-scoped delete with a zone and a record id of white space only
C1_Witness ==
    /\ pc = "done"
    /\ call.op = "ZoneDeleteRecord"
    /\ call.ctx = "background"
    /\ call.zone = <<"a">>
    /\ call.id = <<" ">>
    /\ req = <<>>
    /\ result.err.kind = "local"

\* C4: every request handed to the transport, those of ExportBindZone and
\* ImportBindZone included, has exactly one Authorization value: "Bearer "
\* followed by the credential as it was passed to NewClient.
C4_BearerCredentialAsPassed ==
    \A k \in 1..Len(req) :
        req[k].header["Authorization"] = << <<"Bearer ">> \o ctor.apiKey >>

\* an export request of a client whose credential has white space around it
C4_Witness ==
    /\ pc = "sent"
    /\ call.op = "ExportBindZone"
    /\ ctor.apiKey = <<" ", "key", "\n">>
    /\ Len(req) = 1
    /\ req[1].header["Accept"] = << <<"text/plain">> >>
    /\ req[1].header["Authorization"] = << <<"Bearer ", " ", "key", "\n">> >>

\* the ceiling of the read an operation makes of the answer it got
CeilingOf(op, res) ==
    IF op = "ExportBindZone" /\ res.status < 400 THEN exportBodyLimit ELSE jsonBodyLimit

\* the read of the body returned an error to the operation: the body broke below
\* the ceiling; parseAPIError drops the error of its read
ReadError ==
    /\ ReadFails(resp, CeilingOf(call.op, resp))
    /\ ~(call.op = "ExportBindZone" /\ resp.status >= 400)

\* the transport answered, and the read of the body returned no error
Answered == pc = "done" /\ resp.kind = "response" /\ ~ReadError
FailureAnswered == Answered /\ resp.status >= 400

\* a member is called key when its name is key, whatever the case of its letters
Called(m, key) == FoldName(m.key) = key
HasMember(items, key) == \E k \in 1..Len(items) : Called(items[k], key)
\* the value of the last member called key
LastMember(items, key) ==
    items[CHOOSE k \in 1..Len(items) :
              Called(items[k], key) /\ \A j \in (k + 1)..Len(items) : ~Called(items[j], key)].val

\* field is what the member called key gives: its text, nothing when it is absent
MemberIs(field, items, key) ==
    IF ~HasMember(items, key) THEN field = <<>>
    ELSE LastMember(items, key).t = "string" => field = TextOf(LastMember(items, key).s)

MembersOfObject(e, p) ==
    (p.ok /\ p.val.t = "object") =>
        /\ MemberIs(e.Message, p.val.items, "message")
        /\ MemberIs(e.Code, p.val.items, "code")

TextOfUnparsed(e, body, p) == (body # <<>> /\ ~p.ok) => e.Message = TrimSpace(body)

\* C5 as stated: a status >= 400 gives an APIError with that status; a body that
\* parses as a JSON object gives Message and Code from its "message" and "code"
\* members; a non-empty body that does not parse gives Message the trimmed body.
C5_MembersOfAnyObject ==
    FailureAnswered =>
        /\ result.err.kind = "api"
        /\ result.err.StatusCode = resp.status
        /\ MembersOfObject(result.err, ParseJSON(resp.body))
        /\ TextOfUnparsed(result.err, resp.body, ParseJSON(resp.body))

StringOrNull(v) == v.t \in {"string", "null"}

\* json.Unmarshal into the error structure reports nothing: the body is null, or
\* an object whose "message" and "code" members are all strings or null
DecodesClean(p) ==
    /\ p.ok
    /\ \/ p.val.t = "null"
       \/ /\ p.val.t = "object"
          /\ \A k \in 1..Len(p.val.items) :
                 FoldName(p.val.items[k].key) \in {"message", "code"} =>
                     StringOrNull(p.val.items[k].val)

RECURSIVE LastString(_, _, _)
\* the text of the last string member called key among the first k, <<>> if none
LastString(items, key, k) ==
    IF k = 0 THEN <<>>
    ELSE IF Called(items[k], key) /\ items[k].val.t = "string" THEN TextOf(items[k].val.s)
    ELSE LastString(items, key, k - 1)

MembersOfCleanObject(e, p) ==
    (DecodesClean(p) /\ p.val.t = "object") =>
        /\ e.Message = LastString(p.val.items, "message", Len(p.val.items))
        /\ e.Code = LastString(p.val.items, "code", Len(p.val.items))

TextOfUndecoded(e, body, p) ==
    (body # <<>> /\ ~DecodesClean(p)) => e.Message = TrimSpace(body)

\* C5 amended: a status >= 400 gives an APIError with that status; a body that is
\* a JSON object whose "message" and "code" members are strings or null gives
\* Message and Code from them; a non-empty body that does not decode into the
\* error structure (not JSON, JSON that is not an object, or an object with a
\* "message" or "code" that is not a string) gives Message the trimmed body.  The
\* body is what was read of it, its first jsonBodyLimit bytes at most.
C5_MembersOfDecodedObject ==
    FailureAnswered =>
        /\ result.err.kind = "api"
        /\ result.err.StatusCode = resp.status
        /\ MembersOfCleanObject(result.err, ParseJSON(read))
        /\ TextOfUndecoded(result.err, read, ParseJSON(read))

IsObjectNotClean(p) == p.ok /\ p.val.t = "object" /\ ~DecodesClean(p)

\* a JSON object with a numeric code came with a failure status, and Message is
\* the whole body
C5_Witness ==
    /\ FailureAnswered
    /\ IsObjectNotClean(ParseJSON(read))
    /\ HasMember(ParseJSON(read).val.items, "message")
    /\ result.err.kind = "api"
    /\ result.err.Message = TrimSpace(read)

\* C6: for a status >= 400 and a non-empty body the APIError's Raw holds the body,
\* whether the body parses as JSON or not, through do and through parseAPIError.
C6_RawHoldsBody ==
    (FailureAnswered /\ resp.body # <<>>) =>
        /\ result.err.kind = "api"
        /\ result.err.Raw = resp.body

Is2xx(status) == status >= 200 /\ status <= 299

\* C7 as stated: an operation returns success only for a status in 200..299 and an
\* APIError carrying the status for every other status, 1xx and 3xx included.
C7_SuccessOnly2xx ==
    Answered =>
        /\ result.err = NilErr => Is2xx(resp.status)
        /\ ~Is2xx(resp.status) =>
               (result.err.kind = "api" /\ result.err.StatusCode = resp.status)

Deletes == {"DeleteDomain", "DeleteRecord", "ZoneDeleteRecord"}

\* C7 amended: an operation returns an APIError, carrying the status, exactly when
\* the status is >= 400; a status below 400 that is not 2xx (1xx, 3xx) is handled
\* as a 2xx is, so DeleteDomain and DeleteRecord return success for it.
C7_APIErrorIffStatusAtLeast400 ==
    Answered =>
        /\ IsAPIError(result.err) <=> resp.status >= 400
        /\ IsAPIError(result.err) =>
               (result.err.kind = "api" /\ result.err.StatusCode = resp.status)
        /\ (call.op \in Deletes /\ resp.status < 400) => result.err = NilErr

\* DeleteRecord answered 304 returned success
C7_Witness ==
    /\ Answered
    /\ call.op = "DeleteRecord"
    /\ resp.status = 304
    /\ result.err = NilErr

\* the body parsed as p decodes into a target of type out: it is JSON and each of
\* its values has the type of the place it is stored in
Fits(out, p) == p.ok /\ FitsType(out, p.val)

ValueDecoded(op, value, p) ==
    op # "ZoneListRecords" => value = (IF p.val.t = "null" THEN NoValue ELSE p.val)

DecodeOutcome(op, r, out, p) ==
    IF Fits(out, p) THEN r.err = NilErr /\ ValueDecoded(op, r.value, p)
    ELSE /\ r.err.kind = "wrapped"
         /\ r.err.msg = "decode response"
         /\ ~IsAPIError(r.err)
         /\ r.value = NoValue

\* c.do has returned for an answer with a status below 400
DoneBelow400 ==
    /\ pc = "done"
    /\ resp.kind = "response"
    /\ resp.status < 400
    /\ call.op # "ExportBindZone"

\* C8 as stated: for a status below 400, a call with no output target or an empty
\* body succeeds with nothing decoded; otherwise the body is decoded as JSON into
\* the target, and a body that does not decode gives a decode error that is not an
\* APIError.  An APIError is returned only for a failure status.
C8_SucceedsOrDecodesBelow400 ==
    /\ DoneBelow400 =>
           IF OutOf(call.op).k = "nil" \/ resp.body = <<>>
           THEN result.err = NilErr /\ result.value = NoValue
           ELSE DecodeOutcome(call.op, result, OutOf(call.op), ParseJSON(resp.body))
    /\ (pc = "done" /\ IsAPIError(result.err)) =>
           (resp.kind = "response" /\ resp.status >= 400)

\* C8 amended: for a status below 400, when the read of the body met an error the
\* call returns that error, wrapped, which is not an APIError, and nothing decoded,
\* whether or not there is an output target.  When it met none, a call with no
\* output target or with nothing read succeeds with nothing decoded; otherwise
\* what was read, the first jsonBodyLimit bytes of the body at most, is decoded as
\* JSON into the target, and a body that does not decode gives a decode error that
\* is not an APIError.  An APIError is returned only for a failure status.
C8_DecodeBelow400 ==
    /\ (DoneBelow400 /\ ReadError) =>
           /\ result.err = WrapErr("read response", LocalErr("read"))
           /\ ~IsAPIError(result.err)
           /\ result.value = NoValue
    /\ (DoneBelow400 /\ ~ReadError) =>
           IF OutOf(call.op).k = "nil" \/ read = <<>>
           THEN result.err = NilErr /\ result.value = NoValue
           ELSE DecodeOutcome(call.op, result, OutOf(call.op), ParseJSON(read))
    /\ (pc = "done" /\ IsAPIError(result.err)) =>
           (resp.kind = "response" /\ resp.status >= 400)

\* ListDomains answered 200 with a body that is not JSON returned a decode error
C8_Witness ==
    /\ Answered
    /\ call.op = "ListDomains"
    /\ resp.status = 200
    /\ resp.body = <<" ", "oops", "\n">>
    /\ result.err.kind = "wrapped"
    /\ result.err.msg = "decode response"

\* C9: when the transport gives no response, the operation returns an error that
\* wraps the transport's error and is not an APIError, and neither a decoded value
\* nor export bytes.
C9_TransportErrorWrapped ==
    (pc = "done" /\ resp.kind = "error") =>
        /\ result.err.kind = "wrapped"
        /\ result.err.wraps = resp.err
        /\ ~IsAPIError(result.err)
        /\ result.value = NoValue
        /\ result.data = NoData

\* ExportBindZone whose context was cancelled during the exchange
C9_Witness ==
    /\ pc = "done"
    /\ call.op = "ExportBindZone"
    /\ resp.kind = "error"
    /\ resp.err = TransportErr("context canceled")
    /\ result.err = WrapErr("request failed", TransportErr("context canceled"))
    /\ result.data = NoData

\* the rows of the interface table: method, and path as segments
TableRow(op) ==
    CASE op = "ListDomains" -> [method |-> "GET", path |-> <<"", "api", "client", "domains">>]
      [] op = "CreateDomain" ->
           [method |-> "POST", path |-> <<"", "api", "client", "domains">>]
      [] op = "DeleteDomain" ->
           [method |-> "DELETE", path |-> <<"", "api", "client", "domains", "{id}">>]
      [] op = "CheckNameserver" ->
           [method |-> "POST",
            path |-> <<"", "api", "client", "domains", "{id}", "check-nameserver">>]
      [] op = "ListDomainRecords" ->
           [method |-> "GET", path |-> <<"", "api", "client", "domains", "{id}", "records">>]
      [] op = "ExportBindZone" ->
           [method |-> "GET",
            path |-> <<"", "api", "client", "domains", "{id}", "export", "bind">>]
      [] op = "ImportBindZone" ->
           [method |-> "POST", path |-> <<"", "api", "client", "import", "bind">>]
      [] op = "CreateRecord" ->
           [method |-> "POST", path |-> <<"", "api", "client", "records">>]
      [] op = "UpdateRecord" ->
           [method |-> "PUT", path |-> <<"", "api", "client", "records", "{id}">>]
      [] op = "DeleteRecord" ->
           [method |-> "DELETE", path |-> <<"", "api", "client", "records", "{id}">>]
      [] op = "RotateAPIKey" ->
           [method |-> "POST", path |-> <<"", "api", "client", "rotate-api-key">>]
      [] op = "ZoneListRecords" ->
           [method |-> "GET", path |-> <<"", "zones", "{zone}", "records">>]
      [] op = "ZoneCreateRecord" ->
           [method |-> "POST", path |-> <<"", "zones", "{zone}", "records">>]
      [] op = "ZoneUpdateRecord" ->
           [method |-> "PATCH", path |-> <<"", "zones", "{zone}", "records", "{id}">>]
      [] op = "ZoneDeleteRecord" ->
           [method |-> "DELETE", path |-> <<"", "zones", "{zone}", "records", "{id}">>]

\* the text an escaped segment of a path stands for
Unescaped(seg) == unescape(seg, "pathSegment").text

\* segment seg of the request path is what the table has at that place
SegmentIs(seg, t, c) ==
    CASE t = "{id}" -> Unescaped(seg) = Flatten(c.id)
      [] t = "{zone}" -> Unescaped(seg) = Flatten(trimZone(c.zone))
      [] OTHER -> seg = Chars(t)

PathIs(segs, row, c) ==
    /\ Len(segs) = Len(row.path)
    /\ \A k \in 1..Len(segs) : SegmentIs(segs[k], row.path[k], c)

\* C10: a request has the method and the path of its operation's row of the
\* interface table, the caller's identifier being exactly the {id} or {zone}
\* segment, whatever non-blank identifier is given ('/', '.', '..', '?', '#' and
\* '%' included).
C10_PathOfTable ==
    \A k \in 1..Len(req) :
        /\ req[k].method = TableRow(call.op).method
        /\ PathIs(Split(EscapedPath(req[k].url)), TableRow(call.op), call)

\* the call of TestNewRequest on client c
ExampleRequest(c) ==
    newRequest(c, "background", "GET",
               <<"/", "zones", "/", "example.com", "/", "records">>,
               [nil |-> FALSE, pairs |-> << <<"q", <<"dns">>>> >>], NoBody)

ExampleIs(r) ==
    /\ r.err = NilErr
    /\ Str(URLString(r.req.url)) = "https://example.test/zones/example.com/records?q=dns"

\* the base URL https://example.test/api
HasBasePath ==
    /\ Str(client.baseURL.scheme) = "https"
    /\ Str(client.baseURL.host) = "example.test"
    /\ Str(client.baseURL.path) = "/api"

\* no identifier of the call has a dot in it
NoDots(c) ==
    \A f \in {"id", "zone"} \cap DOMAIN c : ~Contains(Flatten(c[f]), ".")

OnBase(r, c) ==
    /\ r.url.scheme = client.baseURL.scheme
    /\ r.url.host = client.baseURL.host
    /\ NoDots(c) => PathIs(Split(EscapedPath(r.url)), TableRow(c.op), c)
    /\ c.op # "ZoneListRecords" => r.url.rawQuery = <<>>

\* C11: newRequest resolves the path against the base URL as a relative reference:
\* an absolute path replaces the base's path (/api) and is not appended to it, and
\* the query string is the encoding of the query given.  On the base
\* https://example.test/api, the path /zones/example.com/records with q=dns gives
\* https://example.test/zones/example.com/records?q=dns.
C11_ResolvedAgainstBase ==
    /\ (pc = "sent" /\ HasBasePath) => ExampleIs(ExampleRequest(client))
    /\ \A k \in 1..Len(req) : OnBase(req[k], call)

\* a zone-scoped list with filters on a client whose base URL has the path /api
C11_Witness ==
    /\ pc = "sent"
    /\ HasBasePath
    /\ call.op = "ZoneListRecords"
    /\ Str(URLString(req[1].url)) =
           "https://example.test/zones/a/records?name=a%26+&page=2&type=A"

\* the members of a JSON request body have one called key
HasKey(body, key) ==
    body.kind = "json" /\ \E k \in 1..Len(body.members) : body.members[k][1] = key

\* the pointer fields of the two UpdateRecordRequest, with their keys
UpdateKeys ==
    {<<"Name", "name">>, <<"Type", "type">>, <<"Value", "value">>, <<"TTL", "ttl">>,
     <<"Priority", "priority">>}
ZoneUpdateKeys ==
    {<<"Name", "name">>, <<"Type", "type">>, <<"Content", "content">>, <<"TTL", "ttl">>,
     <<"Priority", "priority">>, <<"Weight", "weight">>}

PointersSerialized(body, payload, keys) ==
    \A f \in keys : HasKey(body, f[2]) <=> payload[f[1]].set

\* C12: the body of an update request has a key for an optional field exactly when
\* the caller set the field to a non-null value; a field set to an empty value
\* (a pointer to "" or 0, a non-nil empty country-code list) is serialized, an
\* unset one is not.
C12_KeyIffSet ==
    \A k \in 1..Len(req) :
        /\ call.op = "UpdateRecord" =>
               /\ PointersSerialized(req[k].body, call.payload, UpdateKeys)
               /\ HasKey(req[k].body, "country_codes") <=> ~call.payload.CountryCodes.nil
        /\ call.op = "ZoneUpdateRecord" =>
               PointersSerialized(req[k].body, call.payload, ZoneUpdateKeys)

ZoneOps == {"ZoneListRecords", "ZoneCreateRecord", "ZoneUpdateRecord", "ZoneDeleteRecord"}

EndsWithDot(s) == s # <<>> /\ s[Len(s)] = "."

\* the segment after /zones of a path given as segments has no trailing dot
NoTrailingDot(segs) == Len(segs) >= 3 => ~EndsWithDot(segs[3])

\* C13 as stated: the zone segment of the path of a zone-scoped request has no
\* trailing dot, however many trailing dots and whatever white space around it the
\* zone name had.
C13_NoTrailingDot ==
    \A k \in 1..Len(req) :
        call.op \in ZoneOps => NoTrailingDot(Split(EscapedPath(req[k].url)))

\* z without its last character when that is a dot
StripOneDot(z) == IF EndsWithDot(z) THEN SubSeq(z, 1, Len(z) - 1) ELSE z

\* the zone segment is e, unless e is a dot segment, which resolution removes
ZoneSegmentIs(segs, e) ==
    e \notin {<<".">>, <<".", ".">>} => (Len(segs) >= 3 /\ Unescaped(segs[3]) = e)

\* C13 amended: the zone segment is the zone name with the white space around it
\* removed and then one trailing dot removed ("example.com." gives
\* /zones/example.com/records); a name with two or more trailing dots keeps all of
\* them but the last.
C13_OneTrailingDotStripped ==
    \A k \in 1..Len(req) :
        call.op \in ZoneOps =>
            ZoneSegmentIs(Split(EscapedPath(req[k].url)),
                          StripOneDot(Flatten(TrimSpace(call.zone))))

\* a zone name with two trailing dots is sent with one
C13_Witness ==
    /\ pc = "sent"
    /\ call.op = "ZoneUpdateRecord"
    /\ call.zone = <<"a", ".", ".">>
    /\ call.id = <<"a">>
    /\ Str(EscapedPath(req[1].url)) = "/zones/a./records/a"

ExportAnswered == Answered /\ call.op = "ExportBindZone" /\ resp.status < 400

\* C14 as stated: on a status below 400 ExportBindZone returns the bytes the server
\* served, unchanged and complete, whatever they are, and decodes nothing.
C14_ExportReturnsBodyComplete ==
    ExportAnswered =>
        /\ result.err = NilErr
        /\ result.value = NoValue
        /\ result.data = [nil |-> FALSE, bytes |-> resp.body]

IsPrefix(p, s) == Len(p) <= Len(s) /\ p = SubSeq(s, 1, Len(p))

\* bytes is body, or its first exportBodyLimit bytes when body is longer
FirstOfExport(bytes, body) ==
    /\ IsPrefix(bytes, body)
    /\ IF ByteCount(body) <= exportBodyLimit THEN bytes = body
       ELSE ByteCount(bytes) = exportBodyLimit

\* C14 amended: on a status below 400 ExportBindZone decodes nothing and returns
\* the bytes served, unchanged, up to exportBodyLimit: a body no longer than that
\* is returned complete, a longer one is cut to its first exportBodyLimit bytes and
\* no error is reported.
C14_ExportReturnsBodyUpToLimit ==
    ExportAnswered =>
        /\ result.err = NilErr
        /\ result.value = NoValue
        /\ ~result.data.nil
        /\ FirstOfExport(result.data.bytes, resp.body)

\* an export of one byte more than the ceiling came back cut, without an error
C14_Witness ==
    /\ ExportAnswered
    /\ resp.body = OverExportLimit
    /\ result.err = NilErr
    /\ result.data.bytes = <<BigRun, BigRun, BigRun, BigRun>>

\* C15: no operation reads more bytes of a response body than its ceiling, however
\* many the server sends: jsonBodyLimit (1 MiB) for a JSON response and for an
\* error body, exportBodyLimit (4 MiB) for the body of a successful export.
C15_ReadWithinCeiling ==
    (pc \in {"answered", "done"} /\ resp.kind = "response") =>
        /\ IsPrefix(read, resp.body)
        /\ ByteCount(read) <= CeilingOf(call.op, resp)

\* the error body of an export, one byte longer than the ceiling, was read up to it
C15_Witness ==
    /\ pc = "done"
    /\ call.op = "ExportBindZone"
    /\ resp.kind = "response"
    /\ resp.status = 400
    /\ resp.body = OverJSONLimit
    /\ read = <<BigRun>>
    /\ result.err.kind = "api"
    /\ result.err.Message = <<BigRun>>

\* C19: RotateAPIKey leaves the client's credential as it is: after a rotation
\* that returned a profile with a new api_token, the client still holds the
\* credential passed to NewClient, and its later requests carry "Bearer " followed
\* by that credential, not by the new token.
C19_RotationKeepsCredential ==
    issued # <<>> =>
        /\ client.apiKey = ctor.apiKey
        /\ client.apiKey # issued
        /\ \A k \in 1..Len(req) :
               /\ req[k].header["Authorization"] = << <<"Bearer ">> \o ctor.apiKey >>
               /\ req[k].header["Authorization"] # << <<"Bearer ">> \o issued >>

\* a request sent after a rotation that returned the token "new"
C19_Witness ==
    /\ issued = <<"new">>
    /\ pc = "sent"
    /\ call.op = "ListDomains"
    /\ ctor.apiKey = <<"key">>
    /\ req[1].header["Authorization"] = << <<"Bearer ", "key">> >>

\* the caller s has built the request r that its call builds alone
BuiltAlone(s, r) == s.req = (IF r.err = NilErr THEN <<r.req>> ELSE <<>>)

\* the client each construction gives, and the request each call builds on it
\* alone
ClientOf == [a \in InitCtors |-> NewClient(a.apiKey, a.opts).client]
AloneRequest == [a \in InitCtors |-> [k \in ConcCalls |-> RequestOf(ClientOf[a], k)]]

SameAsAlone(s, a) == s.pc \in {"sent", "answered", "done"} => BuiltAlone(s, AloneRequest[a][s.call])

\* C16: once NewClient has returned, no operation of any caller changes the
\* client's base URL, credential, transport handle or user agent, and the request a
\* call builds while other calls run on the client is the request it builds alone
\* on the client as constructed.
C16_ClientImmutableAcrossCallers ==
    /\ client = ClientOf[ctor]
    /\ \A p \in Callers : SameAsAlone(callers[p], ctor)

\* a request is with the transport while another caller's export has been
\* answered and waits for its body, after a rotation has returned a new token
C16_Witness ==
    /\ callers[1].pc = "sent"
    /\ callers[1].call.op = "ZoneListRecords"
    /\ callers[2].pc = "answered"
    /\ callers[2].call.op = "ExportBindZone"
    /\ callers[2].resp.status = 200
    /\ issued = <<"new">>
    /\ callers[1].req[1].header["Authorization"] = << <<"Bearer ">> \o ctor.apiKey >>

\* the call c passes the operation's validation and its request can be constructed
ValidAndBuildable(c) ==
    /\ ~HasBlank(c)
    /\ c.op = "ImportBindZone" => Len(c.zoneData) > 0
    /\ c.ctx # "nil"

\* C17: a call hands at most one request to the transport, and exactly one when its
\* validation and the construction of its request succeed; after a transport
\* failure, an API error or a decoding error it has still handed over that one
\* request only.
C17_AtMostOneRequest ==
    /\ Len(req) <= 1
    /\ pc \in {"sent", "answered", "done"} => (Len(req) = 1 <=> ValidAndBuildable(call))
    /\ pc = "done" /\ result.err # NilErr /\ ValidAndBuildable(call) => Len(req) = 1

\* a call has returned the transport's failure
C17_Witness ==
    /\ pc = "done"
    /\ resp.kind = "error"
    /\ result.err.kind = "wrapped"
    /\ Len(req) = 1

\* the operations that give newRequest a body value
BodyOps == {"CreateDomain", "CreateRecord", "UpdateRecord", "ZoneCreateRecord",
            "ZoneUpdateRecord"}

\* the Content-Type values the request of the call c has to carry
ContentTypeOf(c) ==
    IF c.op = "ImportBindZone"
    THEN << (IF c.contentType = <<>> THEN <<"text/plain">> ELSE c.contentType) >>
    ELSE IF c.op \in BodyOps THEN << <<"application/json">> >>
    ELSE <<>>

\* the User-Agent values a request of a client built with opts has to carry
UserAgentOf(opts) ==
    IF ~Sets(opts, "WithUserAgent") THEN <<defaultUserAgent>>
    ELSE IF Blank(LastArg(opts, "WithUserAgent")) THEN <<>>
    ELSE <<TrimSpace(LastArg(opts, "WithUserAgent"))>>

\* C18: a request carries Accept: application/json, or text/plain when
\* ExportBindZone built it; Content-Type: application/json exactly when the
\* operation gave newRequest a body value, and for ImportBindZone the caller's
\* content type, or text/plain when that is empty; and User-Agent with the
\* configured user agent when that is non-empty, and no User-Agent entry at all when
\* WithUserAgent was given an empty or white-space-only string.
C18_HeadersOfRequest ==
    \A k \in 1..Len(req) :
        /\ req[k].header["Accept"] =
               << (IF call.op = "ExportBindZone" THEN <<"text/plain">>
                   ELSE <<"application/json">>) >>
        /\ req[k].header["Content-Type"] = ContentTypeOf(call)
        /\ call.op \in BodyOps <=> req[k].body.kind = "json"
        /\ req[k].header["User-Agent"] = UserAgentOf(ctor.opts)
        /\ client.userAgent # <<>> => req[k].header["User-Agent"] = <<client.userAgent>>

\* ImportBindZone was called with an empty content type on a client whose
\* WithUserAgent option was given white space only
C18_Witness ==
    /\ pc = "sent"
    /\ call.op = "ImportBindZone"
    /\ call.contentType = <<>>
    /\ Sets(ctor.opts, "WithUserAgent")
    /\ Blank(LastArg(ctor.opts, "WithUserAgent"))
    /\ req[1].header["Content-Type"] = << <<"text/plain">> >>
    /\ req[1].header["User-Agent"] = <<>>

\* C20: for every zone name requireZone accepts, the zone segment of the path of a
\* zone-scoped request is non-empty: no request goes to /zones//records or to
\* /zones//records/{id}.
C20_ZoneSegmentNonEmpty ==
    \A k \in 1..Len(req) :
        call.op \in ZoneOps /\ requireZone(call.zone) = NilErr =>
            /\ trimZone(call.zone) # <<>>
            /\ Len(Split(EscapedPath(req[k].url))) >= 3
            /\ Split(EscapedPath(req[k].url))[3] # <<>>

RECURSIVE PiecesOf(_)
\* the pieces of a query string between its "&"
PiecesAt(q, i) ==
    IF i = 0 THEN <<q>>
    ELSE <<SubSeq(q, 1, i - 1)>> \o PiecesOf(SubSeq(q, i + 1, Len(q)))

PiecesOf(q) == IF q = <<>> THEN <<>> ELSE PiecesAt(q, Index(q, "&"))

\* the text an escaped key or value of a query stands for
QueryUnescaped(t) == unescape(t, "queryComponent").text

\* the parameter a piece "key=value" carries: <<key, value>>
ParamOf(piece) ==
    <<QueryUnescaped(Before(piece, Index(piece, "="))),
      QueryUnescaped(After(piece, Index(piece, "=")))>>

WellFormedPiece(piece) == Index(piece, "=") > 1

ParamsOf(pieces) == {ParamOf(pieces[k]) : k \in 1..Len(pieces)}

\* the decimal text of the integers the options carry
Decimal(n) == <<ToString(n)>>

ParamIf(set, key, value) == IF set THEN {<<Chars(key), Flatten(value)>>} ELSE {}

\* the parameters the caller set in opts
ParamsSet(opts) ==
    IF opts.nil THEN {}
    ELSE ParamIf(opts.Name # <<>>, "name", opts.Name)
         \cup ParamIf(opts.Type # <<>>, "type", opts.Type)
         \cup ParamIf(opts.Page > 0, "page", Decimal(opts.Page))
         \cup ParamIf(opts.PerPage > 0, "per_page", Decimal(opts.PerPage))

\* the query string q carries the parameters of set, each one once, and nothing else
QueryCarries(q, pieces, set) ==
    /\ \A k \in 1..Len(pieces) : WellFormedPiece(pieces[k])
    /\ ParamsOf(pieces) = set
    /\ Len(pieces) = Cardinality(set)
    /\ set = {} => q = <<>>

\* the slice returned is the array the envelope p has as its "records" member
RecordsServed(value, p) ==
    (p.ok /\ p.val.t = "object" /\ HasMember(p.val.items, "records")
          /\ LastMember(p.val.items, "records").t = "array") =>
        /\ value.t = "array"
        /\ value.items = LastMember(p.val.items, "records").items
        /\ \A i \in 1..(Len(value.items) - 1) : value.items[i].to < value.items[i + 1].from

\* C21: the request of ListRecords has a query parameter for an option exactly when
\* the caller set it: name and type when non-empty, page and per_page when greater
\* than zero, as decimal text; with nil options or no option set the URL has no
\* query string.  The slice returned is the "records" array of the envelope served,
\* with its elements in the served order and number.
C21_QueryIffSetAndRecordsServed ==
    /\ \A k \in 1..Len(req) :
           call.op = "ZoneListRecords" =>
               /\ QueryCarries(req[k].url.rawQuery, PiecesOf(req[k].url.rawQuery),
                               ParamsSet(call.opts))
               /\ ParamsSet(call.opts) = {} => ~Contains(URLString(req[k].url), "?")
    /\ (Answered /\ call.op = "ZoneListRecords" /\ resp.status < 400
          /\ result.err = NilErr) =>
           RecordsServed(result.value, ParseJSON(read))

\* ListRecords was called with per_page only and a page below zero, and returned
\* the two records served, in their order
C21_Witness ==
    /\ Answered
    /\ call.op = "ZoneListRecords"
    /\ call.opts.Page < 0
    /\ Str(req[1].url.rawQuery) = "per_page=50"
    /\ resp.status = 200
    /\ result.err = NilErr
    /\ result.value.t = "array"
    /\ Len(result.value.items) = 2
    /\ result.value.items[1].items[1].val.s = "x"
    /\ result.value.items[2].items[1].val.s = "new"

====
